---- MODULE Spec2Model ----
(***************************************************************************)
(* Model of the document question-answering backend (backend/app):         *)
(* the chat endpoints of api/endpoints/chat.py, the context selection      *)
(* (get_smart_context, get_smart_context_multi), the AI service wrappers   *)
(* (services/ai_service.py, gemini_service.py, deepseek_service.py), the   *)
(* daily quota (services/query_limit.py), the ingestion loop               *)
(* (services/pdf_service.py) and the document/admin operations that decide *)
(* who may read a document.                                                *)
(*                                                                         *)
(* Texts are kept run-length encoded: a text is a sequence of segments,    *)
(* each segment a literal piece of a known length, so that lengths of      *)
(* 100,000 characters and prefix cuts are computed exactly.                *)
(***************************************************************************)
EXTENDS Integers, Sequences, FiniteSets, TLC

VARIABLES
    today,            \* datetime.date.today()
    deepseek_enabled, \* DeepSeekService.enabled (set once, at construction)
    profiles,         \* table user_profiles, by user_id
    documents,        \* table documents, by id
    embeddings,       \* table document_embeddings, by document_id, in insertion order
    chat_sessions,    \* table chat_sessions
    chat_messages,    \* table chat_messages
    multi_sessions,   \* table multi_document_sessions (+ multi_session_documents)
    multi_messages,   \* table multi_session_messages
    served,           \* chat requests served so far
    last,             \* the observed chat request: its inputs, calls and outcome
    sel,              \* the observed application of a pure function (SpecCtx, SpecNorm)
    raw_text,         \* the text handed to normalize_text_for_cache (SpecNorm)
    requests,         \* the chat requests in flight or done, as they overlap (SpecQuota)
    runs              \* the run of process_document for each document (SpecIngest)

vars == <<today, deepseek_enabled, profiles, documents, embeddings, chat_sessions,
          chat_messages, multi_sessions, multi_messages, served, last, sel, raw_text,
          requests, runs>>

(***************************************************************************)
(* Bounds of the model                                                     *)
(***************************************************************************)
MaxDay == 2          \* days the clock runs through
MaxPages == 8        \* pages of the largest uploaded file
MaxRequests == 1     \* chat requests served before the observed one
MaxMultiSessions == 1 \* multi-document sessions created

Users == {"u1", "u2"}
DocIds == {"d1", "d2"}
Models == {"gemini", "deepseek"}
Questions == {"q1", "q2"}
Roles == {"user", "teacher", "admin"}

(***************************************************************************)
(* Program constants                                                       *)
(***************************************************************************)
DAILY_QUERY_LIMIT == 10
TOKEN_THRESHOLDS == [deepseek |-> 25000, gemini |-> 100000]
CHARS_PER_TOKEN == 4
RAG_K_SINGLE == 5
RAG_K_MULTI == 3
RETRY_COUNT == 3
BATCH_SIZE == 3
MAX_CHARS == [gemini |-> 120000, deepseek |-> 50000]

(***************************************************************************)
(* Texts                                                                   *)
(***************************************************************************)
\* a literal piece of text: kind k, of file (or title) f, page p, n characters long
Seg(k, f, p, n) == [k |-> k, f |-> f, p |-> p, n |-> n]

\* the literal "\n\n" of "\n\n".join(...)
BlankLine == Seg("blank_line", 0, 0, 2)

RECURSIVE TextLen(_)
TextLen(t) == IF t = <<>> THEN 0 ELSE Head(t).n + TextLen(Tail(t))

\* str.join: the texts of `parts` with `sep` between neighbours
RECURSIVE Join(_, _)
Join(sep, parts) ==
    IF parts = <<>> THEN <<>>
    ELSE IF Len(parts) = 1 THEN parts[1]
    ELSE parts[1] \o <<sep>> \o Join(sep, Tail(parts))

\* the list comprehension [c.content for c in chunks if c.content]
RECURSIVE Contents(_)
Contents(chunks) ==
    IF chunks = <<>> THEN <<>>
    ELSE IF TextLen(Head(chunks).content) > 0
         THEN <<Head(chunks).content>> \o Contents(Tail(chunks))
         ELSE Contents(Tail(chunks))

\* mutant of JoinChunks: the separator is left out
JoinChunksNoSeparator(chunks) == Join(Seg("blank_line", 0, 0, 0), Contents(chunks))

\* "\n\n".join([c.content for c in chunks if c.content])
JoinChunks(chunks) == Join(BlankLine, Contents(chunks))

(***************************************************************************)
(* Uploaded files: the page texts PdfReader extracts from each.  File n    *)
(* (1..MaxPages) has n pages of 50,000 characters, file 0 has no           *)
(* extractable text; 101 and 102 are the small and the just-below files.   *)
(***************************************************************************)
Files == (0..MaxPages) \cup {101, 102}

FilePages(f) ==
    CASE f = 101 -> <<2000, 3000, 3000>>
      [] f = 102 -> <<50000, 49999>>
      [] OTHER   -> [i \in 1..f |-> 50000]

\* page_texts of _process_document: one text per page that has text
PageTexts(f) == [i \in 1..Len(FilePages(f)) |-> <<Seg("page", f, i, FilePages(f)[i])>>]

\* extract_text_with_vision reads problematic_text[:8000] and returns the cleaned text
CleanedText(t) ==
    <<Seg("cleaned", t[1].f, t[1].p, IF TextLen(t) > 8000 THEN 8000 ELSE TextLen(t))>>

\* text-embedding-004, as the direction of the vector: the texts of one file
\* lie at pairwise different angles, a question at one end of the range
TextAngle(t) == t[1].p
QuestionAngle(q) == IF q = "q1" THEN 0 ELSE 1000

Faults == {"none", "skip_first", "clean_last", "rollback_first"}

\* what happens to page i of n: its embedding succeeds ("ok"), fails and the
\* vision fallback fails too ("skip"), or fails and the cleaned text is embedded
PageOutcome(fault, i, n) ==
    IF fault = "skip_first" /\ i = 1 THEN "skip"
    ELSE IF fault = "clean_last" /\ i = n THEN "clean"
    ELSE "ok"

\* whether db.commit() of the batch that starts at page i (1-based) succeeds
CommitOk(fault, i) == ~(fault = "rollback_first" /\ i = 1)

\* the rows one batch adds to the session: pages i..j, numbered page_index + idx
RECURSIVE BatchRows(_, _, _, _, _)
BatchRows(texts, fault, i, j, page_index) ==
    IF i > j THEN <<>>
    ELSE LET o == PageOutcome(fault, i, Len(texts))
             text == IF o = "clean" THEN CleanedText(texts[i]) ELSE texts[i]
             row == [page_number |-> page_index, content |-> text,
                     angle |-> TextAngle(text)]
         IN (IF o = "skip" THEN <<>> ELSE <<row>>)
            \o BatchRows(texts, fault, i + 1, j, page_index + 1)

\* the loop over batches of chunk_size pages; a failed commit is rolled back
RECURSIVE ProcessBatches(_, _, _)
ProcessBatches(texts, fault, i) ==
    IF i > Len(texts) THEN <<>>
    ELSE LET j == IF i + BATCH_SIZE - 1 > Len(texts) THEN Len(texts)
                  ELSE i + BATCH_SIZE - 1
             rows == BatchRows(texts, fault, i, j, i - 1)
         IN (IF CommitOk(fault, i) THEN rows ELSE <<>>)
            \o ProcessBatches(texts, fault, j + 1)

\* the rows a whole run of _process_document stores for a file
IngestedRows(f, fault) == ProcessBatches(PageTexts(f), fault, 1)

(***************************************************************************)
(* Queries on document_embeddings                                          *)
(***************************************************************************)
RECURSIVE SumChars(_)
SumChars(rows) ==
    IF rows = <<>> THEN 0 ELSE TextLen(Head(rows).content) + SumChars(Tail(rows))

\* index of the first of the pairs [key, row] with the least key
RECURSIVE MinIndex(_, _, _)
MinIndex(pairs, i, best) ==
    IF i > Len(pairs) THEN best
    ELSE MinIndex(pairs, i + 1, IF pairs[i].key < pairs[best].key THEN i ELSE best)

RemoveAt(s, i) == [j \in 1..(Len(s) - 1) |-> IF j < i THEN s[j] ELSE s[j + 1]]

\* ORDER BY key ASC, on pairs [key, row]; gives the rows
RECURSIVE OrderBy(_)
OrderBy(pairs) ==
    IF pairs = <<>> THEN <<>>
    ELSE LET m == MinIndex(pairs, 1, 1)
         IN <<pairs[m].row>> \o OrderBy(RemoveAt(pairs, m))

\* mutant of Limit: one row too many
LimitOffByOne(rows, k) == IF Len(rows) <= k + 1 THEN rows ELSE SubSeq(rows, 1, k + 1)

\* LIMIT k
Limit(rows, k) == IF Len(rows) <= k THEN rows ELSE SubSeq(rows, 1, k)

\* ORDER BY page_number
ByPageNumber(rows) ==
    OrderBy([i \in 1..Len(rows) |-> [key |-> rows[i].page_number, row |-> rows[i]]])

Abs(x) == IF x < 0 THEN -x ELSE x

\* ORDER BY embedding <=> query_embedding (cosine distance grows with the angle)
ByCosineDistance(rows, qe) ==
    OrderBy([i \in 1..Len(rows) |->
                [key |-> Abs(rows[i].angle - qe.angle), row |-> rows[i]]])

\* get_document_token_count
get_document_token_count(tbl, doc_id) == SumChars(tbl[doc_id]) \div CHARS_PER_TOKEN

(***************************************************************************)
(* Embedding provider (GeminiService.generate_embedding)                   *)
(***************************************************************************)
AttemptOutcomes == {"ok", "timeout", "error"}

\* what the provider does during one call of generate_embedding: the outcome
\* of each attempt, and the kind of vector a successful attempt returns
Providers ==
    {[attempts |-> <<"ok", "ok", "ok">>, vec |-> v] : v \in {"vector", "zero", "empty"}}
    \cup {[attempts |-> a, vec |-> "vector"] :
            a \in {<<"timeout", "ok", "ok">>, <<"error", "timeout", "ok">>,
                   <<"timeout", "timeout", "timeout">>, <<"error", "error", "error">>}}

FirstOk(attempts) ==
    IF \E i \in 1..RETRY_COUNT : attempts[i] = "ok"
    THEN CHOOSE i \in 1..RETRY_COUNT :
            attempts[i] = "ok" /\ \A j \in 1..(i - 1) : attempts[j] # "ok"
    ELSE 0

\* the retry loop: the first attempt that succeeds returns its vector; after
\* the last failed attempt the exception is re-raised
generate_embedding(angle, prov) ==
    LET i == FirstOk(prov.attempts)
    IN IF i > 0
       THEN [ok |-> TRUE, tries |-> i, error |-> "none",
             value |-> [kind |-> prov.vec,
                        angle |-> IF prov.vec = "vector" THEN angle ELSE 0]]
       ELSE [ok |-> FALSE, tries |-> RETRY_COUNT, error |-> prov.attempts[RETRY_COUNT],
             value |-> [kind |-> "none", angle |-> 0]]

generate_query_embedding(question, prov) ==
    generate_embedding(QuestionAngle(question), prov)

\* `query_embedding and any(query_embedding)`
Truthy(qe) == qe.kind = "vector"

(***************************************************************************)
(* Hybrid context strategy (chat.py)                                       *)
(***************************************************************************)
\* mutant of RagChunks: the fallback query has no LIMIT
RagChunksFallbackUnlimited(rows, qe, k) ==
    IF Truthy(qe) THEN Limit(ByCosineDistance(rows, qe), k)
    ELSE ByPageNumber(rows)

\* the chunks the RAG branch reads for one document, k of them at most
RagChunks(rows, qe, k) ==
    IF Truthy(qe) THEN Limit(ByCosineDistance(rows, qe), k)
    ELSE Limit(ByPageNumber(rows), k)

get_smart_context(tbl, doc_id, question, model, prov) ==
    LET estimated_tokens == get_document_token_count(tbl, doc_id)
        threshold == TOKEN_THRESHOLDS[model]
        all_chunks == ByPageNumber(tbl[doc_id])
        emb == generate_query_embedding(question, prov)
        chunks == RagChunks(tbl[doc_id], emb.value, RAG_K_SINGLE)
        base == [raised |-> FALSE, context |-> <<>>, mode |-> "empty", chunks |-> <<>>,
                 calls |-> <<"retrieve">>, estimated |-> estimated_tokens,
                 threshold |-> threshold, qe |-> "none"]
    IN IF estimated_tokens < threshold
       THEN IF all_chunks = <<>> THEN base
            ELSE [base EXCEPT !.context = JoinChunks(all_chunks), !.mode = "full",
                              !.chunks = all_chunks]
       ELSE IF ~emb.ok
            THEN [base EXCEPT !.raised = TRUE, !.mode = "rag", !.calls = <<"embed">>,
                              !.qe = "raise"]
            ELSE [base EXCEPT !.context = JoinChunks(chunks), !.mode = "rag",
                              !.chunks = chunks, !.calls = <<"embed", "retrieve">>,
                              !.qe = emb.value.kind]

RECURSIVE SumTokens(_, _)
SumTokens(tbl, doc_ids) ==
    IF doc_ids = <<>> THEN 0
    ELSE (SumChars(tbl[Head(doc_ids)]) \div CHARS_PER_TOKEN) + SumTokens(tbl, Tail(doc_ids))

Range(s) == {s[i] : i \in 1..Len(s)}

\* mutant of MultiThreshold: the single-document threshold, unscaled
MultiThresholdUnscaled(model) == TOKEN_THRESHOLDS[model]

\* int(TOKEN_THRESHOLDS.get(model, 25000) * 1.5)
MultiThreshold(model) == (TOKEN_THRESHOLDS[model] * 3) \div 2

get_smart_context_multi(tbl, doc_ids, question, model, prov) ==
    LET total_tokens == SumTokens(tbl, doc_ids)
        threshold == MultiThreshold(model)
        emb == generate_query_embedding(question, prov)
        full == [d \in Range(doc_ids) |-> ByPageNumber(tbl[d])]
        rag == [d \in Range(doc_ids) |-> RagChunks(tbl[d], emb.value, RAG_K_MULTI)]
        base == [raised |-> FALSE, mode |-> "full", doc_chunks |-> full,
                 doc_contexts |-> [d \in Range(doc_ids) |-> JoinChunks(full[d])],
                 calls |-> <<"retrieve">>, estimated |-> total_tokens,
                 threshold |-> threshold, qe |-> "none"]
    IN IF total_tokens < threshold THEN base
       ELSE IF ~emb.ok
            THEN [base EXCEPT !.raised = TRUE, !.mode = "rag", !.calls = <<"embed">>,
                              !.qe = "raise",
                              !.doc_chunks = [d \in Range(doc_ids) |-> <<>>],
                              !.doc_contexts = [d \in Range(doc_ids) |-> <<>>]]
            ELSE [base EXCEPT !.mode = "rag", !.doc_chunks = rag,
                              !.doc_contexts = [d \in Range(doc_ids) |-> JoinChunks(rag[d])],
                              !.calls = <<"embed", "retrieve">>,
                              !.qe = emb.value.kind]

(***************************************************************************)
(* Tables                                                                  *)
(***************************************************************************)
NoDate == 0

\* a user without a row in user_profiles; the column defaults of UserProfile
NoProfile == [exists |-> FALSE, role |-> "user", daily_query_count |-> 0,
              last_query_date |-> NoDate]

\* UserProfile(user_id=user_uuid)
NewProfile == [NoProfile EXCEPT !.exists = TRUE]

NoDocument == [exists |-> FALSE, user_id |-> "", visibility |-> "private",
               is_approved |-> FALSE, status |-> "none", file |-> 0]

NoRequest == [endpoint |-> "none"]
NoSelection == [fn |-> "none"]

\* no run of process_document was started for the document
NoRun == [pc |-> "none"]

EmptyTables ==
    /\ today = 1
    /\ profiles = [u \in Users |-> NoProfile]
    /\ chat_sessions = <<>>
    /\ chat_messages = <<>>
    /\ multi_sessions = <<>>
    /\ multi_messages = <<>>
    /\ served = 0
    /\ last = NoRequest
    /\ sel = NoSelection
    /\ raw_text = <<>>
    /\ requests = <<>>
    /\ runs = [d \in DocIds |-> NoRun]

(***************************************************************************)
(* Daily quota (services/query_limit.py)                                   *)
(***************************************************************************)
\* mutant of ResetIfNewDay: the counter is never reset
ResetNever(profile, day) == profile

\* the reset at the top of check_query_limit and increment_query_count
ResetIfNewDay(profile, day) ==
    IF profile.last_query_date # day
    THEN [profile EXCEPT !.daily_query_count = 0, !.last_query_date = day]
    ELSE profile

\* check_query_limit: the profile as committed, and the status it returns
check_query_limit(profile, day) ==
    LET p == ResetIfNewDay(profile, day)
        remaining == DAILY_QUERY_LIMIT - p.daily_query_count
    IN [profile |-> p, allowed |-> remaining > 0,
        remaining |-> IF remaining > 0 THEN remaining ELSE 0,
        limit |-> DAILY_QUERY_LIMIT, used |-> p.daily_query_count]

\* increment_query_count: the profile as committed
increment_query_count(profile, day) ==
    LET p == ResetIfNewDay(profile, day)
    IN [p EXCEPT !.daily_query_count = p.daily_query_count + 1]

\* get_query_status(...)["used"]: the queries counted for `day`
get_query_status_used(profile, day) ==
    IF profile.last_query_date # day THEN 0 ELSE profile.daily_query_count

(***************************************************************************)
(* Access to a document                                                    *)
(***************************************************************************)
\* mutant of HasAccess: a public document is open before it is approved
HasAccessBeforeApproval(profile, user, doc) ==
    \/ doc.user_id = user
    \/ doc.visibility = "public"
    \/ profile.exists /\ profile.role = "admin"

\* is_owner or is_public_approved or is_admin, as the endpoints compute it
HasAccess(profile, user, doc) ==
    LET is_owner == doc.user_id = user
        is_public_approved == doc.visibility = "public" /\ doc.is_approved
        is_admin == profile.exists /\ profile.role = "admin"
    IN is_owner \/ is_public_approved \/ is_admin

(***************************************************************************)
(* Answer generation (ai_service.py, deepseek_service.py, gemini_service.py)*)
(***************************************************************************)
\* what the backend does when its generation call is made
GenOutcomes == {"ok", "raise", "timeout"}

\* GeminiService.generate_answer / generate_answer_simple: the text returned
gemini_generate(gen) ==
    CASE gen = "ok"      -> [raised |-> FALSE, text |-> "generated"]
      [] gen = "timeout" -> [raised |-> FALSE, text |-> "timeout_text"]
      [] OTHER           -> [raised |-> FALSE, text |-> "error_text"]

\* DeepSeekService.generate_answer / generate_answer_multi_doc
deepseek_generate(gen) ==
    CASE gen = "ok"      -> [raised |-> FALSE, text |-> "generated"]
      [] OTHER           -> [raised |-> TRUE, text |-> ""]

\* ModelUnavailableError(model, str(e)): str() of a TimeoutError is empty and
\* the constructor then falls back to its default message
MueMessage(gen) == IF gen = "timeout" THEN "default_unavailable" ELSE "exception_text"

NoAnswer == [called |-> FALSE, raised |-> FALSE, mue_model |-> "", mue_message |-> "",
             text |-> ""]

\* AIService.generate_answer and AIService.generate_answer_multi_doc
ai_generate(model, enabled, gen) ==
    IF model = "deepseek"
    THEN IF ~enabled
         THEN [NoAnswer EXCEPT !.raised = TRUE, !.mue_model = "DeepSeek",
                               !.mue_message = "not_configured"]
         ELSE IF deepseek_generate(gen).raised
              THEN [NoAnswer EXCEPT !.called = TRUE, !.raised = TRUE,
                                    !.mue_model = "DeepSeek",
                                    !.mue_message = MueMessage(gen)]
              ELSE [NoAnswer EXCEPT !.called = TRUE, !.text = deepseek_generate(gen).text]
    ELSE IF gemini_generate(gen).raised
         THEN [NoAnswer EXCEPT !.called = TRUE, !.raised = TRUE, !.mue_model = "Gemini",
                               !.mue_message = MueMessage(gen)]
         ELSE [NoAnswer EXCEPT !.called = TRUE, !.text = gemini_generate(gen).text]

(***************************************************************************)
(* Multi-document assembly                                                 *)
(***************************************************************************)
\* len(document.title): titles are the document ids, e.g. "d1"
TitleLen(d) == 2

\* f"[KAYNAK: {title}]\n{content}\n"
SourceBlock(d, content) ==
    <<Seg("label", IF d = "d1" THEN 1 ELSE 2, 0, 11 + TitleLen(d))>> \o content
        \o <<Seg("newline", 0, 0, 1)>>

\* the literal "\n---\n"
Rule == Seg("rule", 0, 0, 5)

\* mutant of AllContexts: a block for every listed document, empty or not
RECURSIVE AllContextsLabelEvery(_, _)
AllContextsLabelEvery(doc_ids, doc_contexts) ==
    IF doc_ids = <<>> THEN <<>>
    ELSE <<SourceBlock(Head(doc_ids), doc_contexts[Head(doc_ids)])>>
         \o AllContextsLabelEvery(Tail(doc_ids), doc_contexts)

\* all_contexts: one block per listed document whose content is not empty
RECURSIVE AllContexts(_, _)
AllContexts(doc_ids, doc_contexts) ==
    IF doc_ids = <<>> THEN <<>>
    ELSE (IF TextLen(doc_contexts[Head(doc_ids)]) > 0
          THEN <<SourceBlock(Head(doc_ids), doc_contexts[Head(doc_ids)])>>
          ELSE <<>>)
         \o AllContexts(Tail(doc_ids), doc_contexts)

\* text[:n]
RECURSIVE Prefix(_, _)
Prefix(t, n) ==
    IF t = <<>> \/ n <= 0 THEN <<>>
    ELSE IF Head(t).n <= n THEN <<Head(t)>> \o Prefix(Tail(t), n - Head(t).n)
    ELSE <<[Head(t) EXCEPT !.n = n]>>

\* mutant of CombinedContext: the assembly is passed on uncut
CombinedContextUncut(doc_ids, doc_contexts, model) ==
    Join(Rule, AllContexts(doc_ids, doc_contexts))

\* combined_context = "\n---\n".join(all_contexts)[:max_chars]
CombinedContext(doc_ids, doc_contexts, model) ==
    Prefix(Join(Rule, AllContexts(doc_ids, doc_contexts)), MAX_CHARS[model])

(***************************************************************************)
(* The chat endpoints (api/endpoints/chat.py).  Each handler is an operator *)
(* from the tables and the request to the tables it commits and the        *)
(* response it sends; `calls` lists, in order, the embedding, retrieval,   *)
(* generation and quota-increment steps the handler reached.               *)
(***************************************************************************)
NoResponse ==
    [status |-> 0, kind |-> "none", calls |-> <<>>, mode |-> "none", context |-> <<>>,
     selected |-> <<>>, qe |-> "none", backend_called |-> FALSE, model_named |-> "",
     reason |-> "", answer |-> "", remaining |-> -1, limit |-> -1]

\* db.query(UserProfile)...first(), or UserProfile(user_id=user_uuid) committed
get_or_create_profile(tbl, user) == IF tbl[user].exists THEN tbl[user] ELSE NewProfile

\* HTTPException(status_code=429, detail={... "remaining": 0, "limit": ...})
QuotaExceeded(lim) ==
    [NoResponse EXCEPT !.status = 429, !.kind = "quota_exceeded", !.remaining = 0,
                       !.limit = lim.limit]

\* the `except` clauses of chat_message applied to a ModelUnavailableError
ModelUnavailable(resp, ans) ==
    [resp EXCEPT !.status = 503, !.kind = "model_unavailable",
                 !.model_named = ans.mue_model, !.reason = ans.mue_message]

\* `except Exception` -> HTTPException(status_code=500, "Internal Server Error: ...")
InternalError(resp) == [resp EXCEPT !.status = 500, !.kind = "internal_error"]

Rejected(status, kind) == [NoResponse EXCEPT !.status = status, !.kind = kind]

UserMsg(sid) == [session_id |-> sid, sender |-> "user", message |-> "question"]
AiMsg(sid, text) == [session_id |-> sid, sender |-> "ai", message |-> text]

\* what a handler leaves behind: the caller's profile, the rows of
\* chat_sessions, chat_messages and multi_session_messages, and the response
Outcome(profile, sessions, messages, session_messages, resp) ==
    [profile |-> profile, sessions |-> sessions, messages |-> messages,
     multi_messages |-> session_messages, resp |-> resp]

\* mutant of NoContent: an empty context is never reported
NoContentIgnored(ctx) == FALSE

\* `not context and context_mode == "empty"`
NoContent(ctx) == ctx.context = <<>> /\ ctx.mode = "empty"

\* steps 3-5 of chat_message: ctx is what get_smart_context returned, ans what
\* ai_service.generate_answer does when it is called
chat_message_answer(p, sessions, sid, msgs1, ctx, ans) ==
    LET r1 == [NoResponse EXCEPT !.calls = ctx.calls, !.mode = ctx.mode, !.qe = ctx.qe,
                                 !.selected = <<ctx.chunks>>]
        r2 == [r1 EXCEPT !.calls = ctx.calls \o <<"generate">>, !.context = ctx.context,
                         !.backend_called = ans.called]
    IN IF ctx.raised
       THEN Outcome(p, sessions, msgs1, multi_messages, InternalError(r1))
       ELSE IF NoContent(ctx)
       THEN Outcome(p, sessions, msgs1, multi_messages,
                    [r1 EXCEPT !.status = 404, !.kind = "no_content"])
       ELSE IF ans.raised
       THEN Outcome(p, sessions, msgs1, multi_messages, ModelUnavailable(r2, ans))
       ELSE Outcome(increment_query_count(p, today), sessions,
                    Append(msgs1, AiMsg(sid, ans.text)), multi_messages,
                    [r2 EXCEPT !.status = 200, !.kind = "ok", !.answer = ans.text,
                               !.calls = ctx.calls \o <<"generate", "increment">>])

\* steps 2-5 of chat_message, once the session is known
chat_message_in_session(p, sessions, sid, question, model, prov, gen) ==
    chat_message_answer(p, sessions, sid, Append(chat_messages, UserMsg(sid)),
        get_smart_context(embeddings, sessions[sid].document_id, question, model, prov),
        ai_generate(model, deepseek_enabled, gen))

\* chat_message after check_query_limit has returned lim
chat_message_checked(lim, user, session_id, document_id, question, model, prov, gen) ==
    IF ~lim.allowed
    THEN Outcome(lim.profile, chat_sessions, chat_messages, multi_messages,
                 QuotaExceeded(lim))
    ELSE IF session_id # 0
    THEN IF session_id \notin DOMAIN chat_sessions
         THEN Outcome(lim.profile, chat_sessions, chat_messages, multi_messages,
                      Rejected(404, "not_found"))
         ELSE IF chat_sessions[session_id].user_id # user
         THEN Outcome(lim.profile, chat_sessions, chat_messages, multi_messages,
                      Rejected(403, "access_denied"))
         ELSE IF document_id # "" /\ chat_sessions[session_id].document_id # document_id
         THEN Outcome(lim.profile, chat_sessions, chat_messages, multi_messages,
                      Rejected(400, "bad_request"))
         ELSE chat_message_in_session(lim.profile, chat_sessions, session_id, question,
                                      model, prov, gen)
    ELSE IF document_id \notin DocIds \/ ~documents[document_id].exists
         THEN Outcome(lim.profile, chat_sessions, chat_messages, multi_messages,
                      Rejected(404, "not_found"))
         ELSE IF ~HasAccess(lim.profile, user, documents[document_id])
         THEN Outcome(lim.profile, chat_sessions, chat_messages, multi_messages,
                      Rejected(403, "access_denied"))
         ELSE chat_message_in_session(lim.profile,
                  Append(chat_sessions, [user_id |-> user, document_id |-> document_id]),
                  Len(chat_sessions) + 1, question, model, prov, gen)

\* POST /chat/message; session_id = 0 and document_id = "" stand for absent values
chat_message(user, session_id, document_id, question, model, prov, gen) ==
    chat_message_checked(check_query_limit(get_or_create_profile(profiles, user), today),
                         user, session_id, document_id, question, model, prov, gen)

\* the assembly and generation the two multi-document handlers share (chat.py
\* 449-468 and 725-743): ctx is what get_smart_context_multi returned, ans what
\* ai_service.generate_answer_multi_doc does when it is called
multi_answer_of(doc_ids, model, ctx, ans) ==
    LET r1 == [NoResponse EXCEPT !.calls = ctx.calls, !.mode = ctx.mode, !.qe = ctx.qe,
                  !.selected = [i \in 1..Len(doc_ids) |-> ctx.doc_chunks[doc_ids[i]]]]
        r2 == [r1 EXCEPT !.calls = ctx.calls \o <<"generate">>,
                         !.context = CombinedContext(doc_ids, ctx.doc_contexts, model),
                         !.backend_called = ans.called]
    IN [embed_raised |-> ctx.raised, ans |-> ans, r1 |-> r1, r2 |-> r2,
        ok |-> [r2 EXCEPT !.status = 200, !.kind = "ok", !.answer = ans.text,
                          !.calls = ctx.calls \o <<"generate", "increment">>]]

multi_answer(doc_ids, question, model, prov, gen) ==
    multi_answer_of(doc_ids, model,
                    get_smart_context_multi(embeddings, doc_ids, question, model, prov),
                    ai_generate(model, deepseek_enabled, gen))

\* the position of the first listed document the loop of 423-439 rejects, or 0
FirstRejected(p, user, doc_ids) ==
    LET bad == {i \in 1..Len(doc_ids) :
                   \/ ~documents[doc_ids[i]].exists
                   \/ ~HasAccess(p, user, documents[doc_ids[i]])}
    IN IF bad = {} THEN 0 ELSE CHOOSE i \in bad : \A j \in bad : i <= j

\* multi_document_chat after check_query_limit has returned lim; bad is the
\* first rejected document, m the answer to the question
multi_document_chat_checked(lim, doc_ids, bad, m) ==
    IF ~lim.allowed
    THEN Outcome(lim.profile, chat_sessions, chat_messages, multi_messages,
                 QuotaExceeded(lim))
    ELSE IF Len(doc_ids) = 0 \/ Len(doc_ids) > 10
    THEN Outcome(lim.profile, chat_sessions, chat_messages, multi_messages,
                 Rejected(400, "bad_request"))
    ELSE IF bad # 0
    THEN Outcome(lim.profile, chat_sessions, chat_messages, multi_messages,
                 IF ~documents[doc_ids[bad]].exists THEN Rejected(404, "not_found")
                 ELSE Rejected(403, "access_denied"))
    ELSE IF m.embed_raised
    THEN Outcome(lim.profile, chat_sessions, chat_messages, multi_messages,
                 InternalError(m.r1))
    ELSE IF m.ans.raised
    THEN Outcome(lim.profile, chat_sessions, chat_messages, multi_messages,
                 InternalError(m.r2))
    ELSE Outcome(increment_query_count(lim.profile, today), chat_sessions, chat_messages,
                 multi_messages, m.ok)

\* the access loop of multi_document_chat, on the profile the quota check left
multi_document_chat_access(lim, user, doc_ids, m) ==
    multi_document_chat_checked(lim, doc_ids, FirstRejected(lim.profile, user, doc_ids), m)

\* POST /chat/multi-document
multi_document_chat(user, doc_ids, question, model, prov, gen) ==
    multi_document_chat_access(
        check_query_limit(get_or_create_profile(profiles, user), today), user, doc_ids,
        multi_answer(doc_ids, question, model, prov, gen))

\* the orders in which the rows of a set of documents can be returned
Orders(doc_ids) ==
    {t \in [1..Len(doc_ids) -> Range(doc_ids)] : Range(t) = Range(doc_ids)}

\* POST /chat/multi-document/session: the session row, or no row when a listed
\* document is missing or closed to the user.  The documents are stored as
\* rows of multi_session_documents, which has no position column, and the
\* relationship `documents` has no order_by: `listed` is the order of the
\* request, `documents` the order in which the rows are loaded later.
create_multi_session(user, doc_ids, loaded) ==
    IF FirstRejected(profiles[user], user, doc_ids) # 0 THEN multi_sessions
    ELSE Append(multi_sessions,
                [user_id |-> user, listed |-> doc_ids, documents |-> loaded])

\* the documents of the user's session, none when there is no such session
SessionDocuments(user, session_id) ==
    IF session_id \in DOMAIN multi_sessions /\ multi_sessions[session_id].user_id = user
    THEN multi_sessions[session_id].documents
    ELSE <<>>

\* send_multi_session_message after check_query_limit has returned lim; the
\* handler has no except clause, so whatever is raised leaves it as the
\* server's plain 500
send_multi_session_message_checked(lim, user, session_id, msgs1, m) ==
    IF ~lim.allowed
    THEN Outcome(lim.profile, chat_sessions, chat_messages, multi_messages,
                 QuotaExceeded(lim))
    ELSE IF ~(session_id \in DOMAIN multi_sessions
                /\ multi_sessions[session_id].user_id = user)
    THEN Outcome(lim.profile, chat_sessions, chat_messages, multi_messages,
                 Rejected(404, "not_found"))
    ELSE IF m.embed_raised
    THEN Outcome(lim.profile, chat_sessions, chat_messages, msgs1, InternalError(m.r1))
    ELSE IF m.ans.raised
    THEN Outcome(lim.profile, chat_sessions, chat_messages, msgs1, InternalError(m.r2))
    ELSE Outcome(increment_query_count(lim.profile, today), chat_sessions, chat_messages,
                 Append(msgs1, AiMsg(session_id, m.ans.text)), m.ok)

\* POST /chat/multi-document/session/{session_id}/message
send_multi_session_message(user, session_id, question, model, prov, gen) ==
    send_multi_session_message_checked(
        check_query_limit(get_or_create_profile(profiles, user), today), user, session_id,
        Append(multi_messages, UserMsg(session_id)),
        multi_answer(SessionDocuments(user, session_id), question, model, prov, gen))

(***************************************************************************)
(* Spec: the service with its users, roles, documents, days and chat       *)
(* sessions, the embedding provider and both backends being healthy (their *)
(* faults are the subject of SpecAsk).  u1 is the user who chats and who   *)
(* may hold the admin role; u2 owns the large document d2.  A request is   *)
(* either served silently or recorded in `last`; once a request is         *)
(* recorded the run stops, so that `last` holds the request next to the    *)
(* tables it left behind.                                                  *)
(***************************************************************************)
Running == last = NoRequest

Owner(d) == IF d = "d1" THEN "u1" ELSE "u2"
UploadedFile(d) == IF d = "d1" THEN 101 ELSE MaxPages

\* the administrative requests come from u1, the chat requests too
Actors == {"u1"}
AssignableRoles == {"user", "admin"}
Visibilities == {"private", "public"}
MultiDocLists == {<<"d1">>, <<"d2">>, <<"d1", "d2">>, <<"d2", "d1">>}

\* a healthy embedding provider and a healthy generation backend
Healthy == [prov |-> [attempts |-> <<"ok", "ok", "ok">>, vec |-> "vector"], gen |-> "ok"]

\* u1's profile after DAILY_QUERY_LIMIT - 1 answered stateless multi-document
\* questions on day 1 (the endpoint stores neither session nor message)
UsedProfile ==
    [NewProfile EXCEPT !.daily_query_count = DAILY_QUERY_LIMIT - 1, !.last_query_date = 1]

\* the service is started with empty document and chat tables; u1 is either
\* new or has used all but one of the day's questions
Init ==
    /\ today = 1
    /\ deepseek_enabled = TRUE
    /\ profiles \in {[u \in Users |-> NoProfile],
                     [u \in Users |-> IF u = "u1" THEN UsedProfile ELSE NoProfile]}
    /\ documents = [d \in DocIds |-> NoDocument]
    /\ embeddings = [d \in DocIds |-> <<>>]
    /\ chat_sessions = <<>>
    /\ chat_messages = <<>>
    /\ multi_sessions = <<>>
    /\ multi_messages = <<>>
    /\ served = 0
    /\ last = NoRequest
    /\ sel = NoSelection
    /\ raw_text = <<>>
    /\ requests = <<>>
    /\ runs = [d \in DocIds |-> NoRun]

NextDay ==
    /\ Running
    /\ today < MaxDay
    /\ today' = today + 1
    /\ UNCHANGED <<deepseek_enabled, profiles, documents, embeddings, chat_sessions,
                   chat_messages, multi_sessions, multi_messages, served, last, sel,
                   raw_text, requests, runs>>

\* POST /setup/make-me-admin
MakeFirstAdmin(u) ==
    /\ Running
    /\ ~\E v \in Users : profiles[v].exists /\ profiles[v].role = "admin"
    /\ profiles' = [profiles EXCEPT ![u] =
                       [get_or_create_profile(profiles, u) EXCEPT !.role = "admin"]]
    /\ UNCHANGED <<today, deepseek_enabled, documents, embeddings, chat_sessions,
                   chat_messages, multi_sessions, multi_messages, served, last, sel,
                   raw_text, requests, runs>>

\* verify_admin_role: get_or_create_user_profile commits the caller's profile
verify_admin_role(tbl, u) == [tbl EXCEPT ![u] = get_or_create_profile(tbl, u)]

\* PUT /admin/users/{user_id}/role: the role is set when the caller is an
\* admin and the target has a profile
UpdateUserRole(u, target, role) ==
    /\ Running
    /\ profiles' = IF verify_admin_role(profiles, u)[u].role = "admin"
                        /\ verify_admin_role(profiles, u)[target].exists
                   THEN [verify_admin_role(profiles, u) EXCEPT ![target].role = role]
                   ELSE verify_admin_role(profiles, u)
    /\ profiles' # profiles
    /\ UNCHANGED <<today, deepseek_enabled, documents, embeddings, chat_sessions,
                   chat_messages, multi_sessions, multi_messages, served, last, sel,
                   raw_text, requests, runs>>

\* POST /documents/ with a non-course document of an active category; private
\* documents are approved as they are created
CreateDocument(d, visibility) ==
    /\ Running
    /\ ~documents[d].exists
    /\ documents' = [documents EXCEPT ![d] =
          [exists |-> TRUE, user_id |-> Owner(d), visibility |-> visibility,
           is_approved |-> (visibility # "public"), status |-> "pending",
           file |-> UploadedFile(d)]]
    /\ UNCHANGED <<today, deepseek_enabled, profiles, embeddings, chat_sessions,
                   chat_messages, multi_sessions, multi_messages, served, last, sel,
                   raw_text, requests, runs>>

\* the background task process_document, run to its end
ProcessDocument(d) ==
    /\ Running
    /\ documents[d].exists /\ documents[d].status = "pending"
    /\ embeddings' = [embeddings EXCEPT ![d] = IngestedRows(documents[d].file, "none")]
    /\ documents' = [documents EXCEPT ![d].status = "completed"]
    /\ UNCHANGED <<today, deepseek_enabled, profiles, chat_sessions, chat_messages,
                   multi_sessions, multi_messages, served, last, sel,
                   raw_text, requests, runs>>

\* PUT /admin/documents/{document_id}/approve: a public document not yet
\* approved is approved when the caller is an admin
ApproveDocument(u, d) ==
    /\ Running
    /\ profiles' = verify_admin_role(profiles, u)
    /\ documents' = IF /\ profiles'[u].role = "admin"
                       /\ documents[d].exists
                       /\ documents[d].visibility = "public"
                       /\ ~documents[d].is_approved
                    THEN [documents EXCEPT ![d].is_approved = TRUE]
                    ELSE documents
    /\ <<profiles', documents'>> # <<profiles, documents>>
    /\ UNCHANGED <<today, deepseek_enabled, embeddings, chat_sessions, chat_messages,
                   multi_sessions, multi_messages, served, last, sel,
                   raw_text, requests, runs>>

CreateMultiSession(u, doc_ids) ==
    /\ Running
    /\ Len(multi_sessions) < MaxMultiSessions
    /\ \E loaded \in Orders(doc_ids) :
          multi_sessions' = create_multi_session(u, doc_ids, loaded)
    /\ multi_sessions' # multi_sessions
    /\ UNCHANGED <<today, deepseek_enabled, profiles, documents, embeddings,
                   chat_sessions, chat_messages, multi_messages, served, last, sel,
                   raw_text, requests, runs>>

CountSender(msgs, sender) == Cardinality({i \in 1..Len(msgs) : msgs[i].sender = sender})

\* the messages of `sender` a request added to the two message tables
Stored(out, sender) ==
    (CountSender(out.messages, sender) + CountSender(out.multi_messages, sender))
        - (CountSender(chat_messages, sender) + CountSender(multi_messages, sender))

\* what `last` records of a request: the request, what held when it arrived,
\* the response, and what the tables hold afterwards
Observation(endpoint, u, m, doc_ids, session_id, prov, gen, out) ==
    [endpoint |-> endpoint, user |-> u, model |-> m, doc_ids |-> doc_ids,
     via_session |-> session_id # 0, session_id |-> session_id, prov |-> prov,
     gen |-> gen,
     configured |-> (m = "gemini" \/ deepseek_enabled),
     used_before |-> get_query_status_used(profiles[u], today),
     docs_exist |-> \A i \in 1..Len(doc_ids) : documents[doc_ids[i]].exists,
     has_access |-> \A i \in 1..Len(doc_ids) :
                        HasAccess(profiles[u], u, documents[doc_ids[i]]),
     resp |-> out.resp,
     used_after |-> get_query_status_used(out.profile, today),
     stored_user |-> Stored(out, "user"), stored_ai |-> Stored(out, "ai")]

\* the handler's commits; a request served silently is one that changed a table
Serve(endpoint, u, m, doc_ids, session_id, prov, gen, observe, out) ==
    /\ Running
    /\ IF observe THEN TRUE ELSE served < MaxRequests
    /\ profiles' = [profiles EXCEPT ![u] = out.profile]
    /\ chat_sessions' = out.sessions
    /\ chat_messages' = out.messages
    /\ multi_messages' = out.multi_messages
    /\ IF observe THEN TRUE
       ELSE <<profiles', chat_messages', multi_messages'>>
               # <<profiles, chat_messages, multi_messages>>
    /\ served' = IF observe THEN served ELSE served + 1
    /\ last' = IF observe
               THEN Observation(endpoint, u, m, doc_ids, session_id, prov, gen, out)
               ELSE last
    /\ UNCHANGED <<today, deepseek_enabled, documents, embeddings, multi_sessions, sel,
                   raw_text, requests, runs>>

ChatMessage(u, session_id, document_id, q, m, prov, gen, observe) ==
    Serve("chat_message", u, m,
          IF session_id # 0 THEN <<chat_sessions[session_id].document_id>>
          ELSE <<document_id>>,
          session_id, prov, gen, observe,
          chat_message(u, session_id, document_id, q, m, prov, gen))

MultiDocumentChat(u, doc_ids, q, m, prov, gen, observe) ==
    Serve("multi_document_chat", u, m, doc_ids, 0, prov, gen, observe,
          multi_document_chat(u, doc_ids, q, m, prov, gen))

SendMultiSessionMessage(u, session_id, q, m, prov, gen, observe) ==
    Serve("send_multi_session_message", u, m, SessionDocuments(u, session_id),
          session_id, prov, gen, observe, send_multi_session_message(u, session_id, q, m, prov, gen))

Next ==
    \/ NextDay
    \/ \E u \in Actors : MakeFirstAdmin(u)
    \/ \E u \in Actors, target \in Actors, role \in AssignableRoles :
          UpdateUserRole(u, target, role)
    \/ \E d \in DocIds, visibility \in Visibilities : CreateDocument(d, visibility)
    \/ \E d \in DocIds : ProcessDocument(d)
    \/ \E u \in Actors, d \in DocIds : ApproveDocument(u, d)
    \/ \E u \in Actors, doc_ids \in {ds \in MultiDocLists : Len(ds) >= 2} :
          CreateMultiSession(u, doc_ids)
    \/ \E u \in Actors, session_id \in 0..Len(chat_sessions),
          document_id \in DocIds \cup {""}, m \in Models, observe \in BOOLEAN :
          /\ session_id = 0 => document_id # ""
          /\ ChatMessage(u, session_id, document_id, "q1", m, Healthy.prov, Healthy.gen,
                         observe)
    \/ \E u \in Actors, doc_ids \in MultiDocLists, m \in Models, observe \in BOOLEAN :
          MultiDocumentChat(u, doc_ids, "q1", m, Healthy.prov, Healthy.gen, observe)
    \/ \E u \in Actors, session_id \in 1..Len(multi_sessions), m \in Models,
          observe \in BOOLEAN :
          SendMultiSessionMessage(u, session_id, "q1", m, Healthy.prov, Healthy.gen,
                                  observe)

Spec == Init /\ [][Next]_vars

(***************************************************************************)
(* SpecAsk: one recorded chat request against a library u1 owns, under     *)
(* every behaviour of the embedding provider and the generation backend.   *)
(* d1 is either still waiting for its ingestion run (no chunk stored) or   *)
(* ingested from the small file; d2 is ingested from a large file.         *)
(***************************************************************************)
LargeFiles == {102, MaxPages}

InitAsk ==
    /\ today = 1
    /\ deepseek_enabled \in BOOLEAN
    /\ profiles \in {[u \in Users |-> NoProfile],
                     [u \in Users |-> IF u = "u1" THEN UsedProfile ELSE NoProfile]}
    /\ \E processed \in BOOLEAN, file \in LargeFiles, fault \in Faults :
          /\ documents =
                [d \in DocIds |->
                    [exists |-> TRUE, user_id |-> "u1", visibility |-> "private",
                     is_approved |-> TRUE,
                     status |-> IF d = "d1" /\ ~processed THEN "pending" ELSE "completed",
                     file |-> IF d = "d1" THEN 101 ELSE file]]
          /\ embeddings =
                [d \in DocIds |->
                    IF d = "d1"
                    THEN (IF processed THEN IngestedRows(101, "none") ELSE <<>>)
                    ELSE IngestedRows(file, fault)]
    /\ chat_sessions = <<>>
    /\ chat_messages = <<>>
    /\ multi_sessions = <<>>
    /\ multi_messages = <<>>
    /\ served = 0
    /\ last = NoRequest
    /\ sel = NoSelection
    /\ raw_text = <<>>
    /\ requests = <<>>
    /\ runs = [d \in DocIds |-> NoRun]

NextAsk ==
    \/ \E doc_ids \in {ds \in MultiDocLists : Len(ds) >= 2} :
          CreateMultiSession("u1", doc_ids)
    \/ \E d \in DocIds, q \in Questions, m \in Models, prov \in Providers,
          gen \in GenOutcomes : ChatMessage("u1", 0, d, q, m, prov, gen, TRUE)
    \/ \E doc_ids \in MultiDocLists, q \in Questions, m \in Models, prov \in Providers,
          gen \in GenOutcomes : MultiDocumentChat("u1", doc_ids, q, m, prov, gen, TRUE)
    \/ \E session_id \in 1..Len(multi_sessions), q \in Questions, m \in Models,
          prov \in Providers, gen \in GenOutcomes :
          SendMultiSessionMessage("u1", session_id, q, m, prov, gen, TRUE)

SpecAsk == InitAsk /\ [][NextAsk]_vars

(***************************************************************************)
(* SpecCtx: the context selection applied to the chunk stores ingestion    *)
(* leaves behind                                                           *)
(***************************************************************************)
DocLists == {<<d>> : d \in DocIds} \cup {<<d, e>> : d \in DocIds, e \in DocIds}

InitCtx ==
    /\ EmptyTables
    /\ deepseek_enabled = TRUE
    /\ \E file \in [DocIds -> Files], fault \in [DocIds -> Faults] :
          /\ documents = [d \in DocIds |->
                [exists |-> TRUE, user_id |-> "u1", visibility |-> "private",
                 is_approved |-> TRUE, status |-> "completed", file |-> file[d]]]
          /\ embeddings = [d \in DocIds |-> IngestedRows(file[d], fault[d])]

SelectSingle(d, q, m, prov) ==
    /\ sel = NoSelection
    /\ sel' = [fn |-> "single", doc_ids |-> <<d>>, model |-> m, question |-> q,
               res |-> get_smart_context(embeddings, d, q, m, prov)]
    /\ UNCHANGED <<today, deepseek_enabled, profiles, documents, embeddings,
                   chat_sessions, chat_messages, multi_sessions, multi_messages, served,
                   last, raw_text, requests, runs>>

SelectMulti(ds, q, m, prov) ==
    /\ sel = NoSelection
    /\ sel' = [fn |-> "multi", doc_ids |-> ds, model |-> m, question |-> q,
               res |-> get_smart_context_multi(embeddings, ds, q, m, prov)]
    /\ UNCHANGED <<today, deepseek_enabled, profiles, documents, embeddings,
                   chat_sessions, chat_messages, multi_sessions, multi_messages, served,
                   last, raw_text, requests, runs>>

NextCtx ==
    \/ \E d \in DocIds, q \in Questions, m \in Models, prov \in Providers :
          SelectSingle(d, q, m, prov)
    \/ \E ds \in DocLists, q \in Questions, m \in Models, prov \in Providers :
          SelectMulti(ds, q, m, prov)

SpecCtx == InitCtx /\ [][NextCtx]_vars

(***************************************************************************)
(* Claims on the context selection (checked under SpecCtx)                 *)
(***************************************************************************)
\* the thresholds as the specification states them
StatedThreshold(m) == IF m = "deepseek" THEN 25000 ELSE 100000
StatedMultiThreshold(m) == IF m = "deepseek" THEN 37500 ELSE 150000

StrictlyAscending(rows) ==
    \A i, j \in 1..Len(rows) : i < j => rows[i].page_number < rows[j].page_number

RowsOf(rows) == {rows[i] : i \in 1..Len(rows)}

\* every row of `all`, once each
EveryChunk(rows, all) == Len(rows) = Len(all) /\ RowsOf(rows) = RowsOf(all)

\* the contents of the rows, in their order, with a blank line between neighbours
JoinedByBlankLine(rows) == Join(Seg("blank_line", 0, 0, 2), [i \in 1..Len(rows) |-> rows[i].content])

Min(a, b) == IF a < b THEN a ELSE b

\* C3: get_smart_context on a document with at least one chunk and an estimate
\* (characters // 4) strictly below the backend's threshold returns mode "full"
\* and a context that is the content of every chunk of the document, joined by
\* a blank line, in strictly ascending page_number order.
C3_FullModeEveryChunkAscending ==
    (/\ sel.fn = "single"
     /\ embeddings[sel.doc_ids[1]] # <<>>
     /\ SumChars(embeddings[sel.doc_ids[1]]) \div 4 < StatedThreshold(sel.model))
    => /\ ~sel.res.raised
       /\ sel.res.mode = "full"
       /\ EveryChunk(sel.res.chunks, embeddings[sel.doc_ids[1]])
       /\ StrictlyAscending(sel.res.chunks)
       /\ sel.res.context = JoinedByBlankLine(sel.res.chunks)

\* C3 witness: a full-mode selection of a document with more chunks than the
\* RAG branch would ever read, one of them skipped at ingestion
C3_Witness ==
    /\ sel.fn = "single"
    /\ sel.res.mode = "full"
    /\ Len(sel.res.chunks) > 5
    /\ sel.res.chunks[1].page_number > 0

\* C4 as stated: every document whose own estimate is at or above the backend's
\* threshold gets mode "rag" and at most K chunks, K = 5 in get_smart_context
\* and K = 3 per document in get_smart_context_multi.
C4_Original_PerDocumentThreshold ==
    /\ (sel.fn = "single"
        /\ SumChars(embeddings[sel.doc_ids[1]]) \div 4 >= StatedThreshold(sel.model))
       => (sel.res.mode = "rag" /\ Len(sel.res.chunks) <= 5)
    /\ sel.fn = "multi" =>
         \A d \in Range(sel.doc_ids) :
            SumChars(embeddings[d]) \div 4 >= StatedThreshold(sel.model)
            => (sel.res.mode = "rag" /\ Len(sel.res.doc_chunks[d]) <= 3)

\* C4 amended: get_smart_context takes the RAG branch for every document whose
\* estimate is at or above the backend's threshold (equality included) and
\* builds the context from at most 5 chunks of the document;
\* get_smart_context_multi compares the summed estimate of the requested
\* documents with 1.5 times the backend's threshold and, at or above it, takes
\* the RAG branch with at most 3 chunks per document.  (When the question
\* cannot be embedded the RAG branch raises and reads no chunk.)
C4_RagModeAtMostK ==
    /\ (sel.fn = "single"
        /\ SumChars(embeddings[sel.doc_ids[1]]) \div 4 >= StatedThreshold(sel.model))
       => /\ sel.res.mode = "rag"
          /\ Len(sel.res.chunks) <= 5
          /\ RowsOf(sel.res.chunks) \subseteq RowsOf(embeddings[sel.doc_ids[1]])
          /\ sel.res.context = JoinedByBlankLine(sel.res.chunks)
    /\ (sel.fn = "multi"
        /\ SumTokens(embeddings, sel.doc_ids) >= StatedMultiThreshold(sel.model))
       => /\ sel.res.mode = "rag"
          /\ \A d \in Range(sel.doc_ids) :
                /\ Len(sel.res.doc_chunks[d]) <= 3
                /\ RowsOf(sel.res.doc_chunks[d]) \subseteq RowsOf(embeddings[d])
                /\ sel.res.doc_contexts[d] = JoinedByBlankLine(sel.res.doc_chunks[d])

\* C4 witness: a document exactly at the threshold, with more than 5 chunks, of
\* which the RAG branch reads 5
C4_Witness ==
    /\ sel.fn = "single"
    /\ SumChars(embeddings[sel.doc_ids[1]]) \div 4 = StatedThreshold(sel.model)
    /\ Len(embeddings[sel.doc_ids[1]]) > 5
    /\ sel.res.mode = "rag"
    /\ Len(sel.res.chunks) = 5

\* C5: get_smart_context_multi decides one mode for the whole set: the mode is
\* "full", with every chunk of every document, iff the summed estimate is
\* strictly below 1.5 times the backend's threshold (37,500 / 150,000);
\* otherwise it is "rag" and, once the question is embedded, each document
\* contributes its top 3 chunks (all of them when it has fewer).
C5_MultiOneModeAggregateThreshold ==
    sel.fn = "multi" =>
       /\ sel.res.mode \in {"full", "rag"}
       /\ sel.res.mode = "full" <=>
             SumTokens(embeddings, sel.doc_ids) < StatedMultiThreshold(sel.model)
       /\ sel.res.mode = "full" =>
             \A d \in Range(sel.doc_ids) :
                /\ EveryChunk(sel.res.doc_chunks[d], embeddings[d])
                /\ sel.res.doc_contexts[d] = JoinedByBlankLine(sel.res.doc_chunks[d])
       /\ (sel.res.mode = "rag" /\ ~sel.res.raised) =>
             \A d \in Range(sel.doc_ids) :
                /\ Len(sel.res.doc_chunks[d]) = Min(3, Len(embeddings[d]))
                /\ RowsOf(sel.res.doc_chunks[d]) \subseteq RowsOf(embeddings[d])

\* C5 witness: two different documents, each below the single-document
\* threshold, whose sum is exactly the aggregate threshold: mode "rag"
C5_Witness ==
    /\ sel.fn = "multi"
    /\ Len(sel.doc_ids) = 2
    /\ sel.doc_ids[1] # sel.doc_ids[2]
    /\ \A d \in Range(sel.doc_ids) :
          /\ SumChars(embeddings[d]) \div 4 < StatedThreshold(sel.model)
          /\ Len(embeddings[d]) > 3
    /\ SumTokens(embeddings, sel.doc_ids) = StatedMultiThreshold(sel.model)
    /\ sel.res.mode = "rag"
    /\ ~sel.res.raised

(***************************************************************************)
(* Claims on the chat endpoints (checked under SpecAsk and Spec)           *)
(***************************************************************************)
Asked == last # NoRequest
Reached(step) == \E i \in 1..Len(last.resp.calls) : last.resp.calls[i] = step

\* the backend's generation call was made and neither raised nor timed out
GenerationSucceeded == last.resp.backend_called /\ last.gen = "ok"
\* the backend's generation call was made and raised or timed out
GenerationFailed == last.resp.backend_called /\ last.gen # "ok"

BackendName(m) == IF m = "deepseek" THEN "DeepSeek" ELSE "Gemini"

\* K of the RAG branch of the endpoint
StatedK(endpoint) == IF endpoint = "chat_message" THEN 5 ELSE 3

\* `rows` are the first k stored chunks of a document in page_number order
FirstKByOrdinal(rows, stored, k) ==
    /\ StrictlyAscending(rows)
    /\ RowsOf(rows) \subseteq RowsOf(stored)
    /\ Len(rows) = Min(k, Len(stored))
    /\ \A r \in RowsOf(stored) \ RowsOf(rows), s \in RowsOf(rows) :
          s.page_number < r.page_number

\* C1 (as stated): in each of the three chat endpoints the quota counter is
\* incremented exactly when the backend's generation call succeeded, and a
\* generation call that raises or times out leaves the day's count as it was.
C1_IncrementIffGenerationSucceeded ==
    Asked =>
       /\ Reached("increment") <=> GenerationSucceeded
       /\ GenerationFailed => last.used_after = last.used_before

\* C2 (as stated): a request of a user whose count for today has reached
\* DAILY_QUERY_LIMIT ends as quota exceeded with remaining 0 and the limit, a
\* request for a document the user has no access to ends as access denied (or
\* is refused as not matching its session), and in both cases no embedding,
\* retrieval or generation step was made.
C2_QuotaAndAccessBeforeWork ==
    Asked =>
       /\ last.used_before >= DAILY_QUERY_LIMIT =>
             /\ last.resp.kind = "quota_exceeded"
             /\ last.resp.remaining = 0
             /\ last.resp.limit = DAILY_QUERY_LIMIT
             /\ last.resp.calls = <<>>
       /\ (last.used_before < DAILY_QUERY_LIMIT /\ last.docs_exist /\ ~last.has_access) =>
             /\ last.resp.kind \in {"access_denied", "bad_request"}
             /\ last.resp.calls = <<>>

\* C6: in RAG mode, when the provider returns an all-zero or an empty query
\* vector, retrieval is made, each document contributes its first K chunks in
\* page_number order (K = 5 in chat_message, 3 per document in the
\* multi-document endpoints), and the request goes on to the generation step.
C6_ZeroVectorFallsBackToFirstK ==
    (Asked /\ last.resp.mode = "rag" /\ last.resp.qe \in {"zero", "empty"}) =>
       /\ Reached("retrieve")
       /\ Reached("generate")
       /\ \A i \in 1..Len(last.doc_ids) :
             FirstKByOrdinal(last.resp.selected[i], embeddings[last.doc_ids[i]],
                             StatedK(last.endpoint))

C6_Witness ==
    /\ Asked
    /\ last.endpoint = "chat_message"
    /\ last.resp.mode = "rag"
    /\ last.resp.qe = "zero"
    /\ Len(embeddings[last.doc_ids[1]]) > 5
    /\ Len(last.resp.selected[1]) = 5
    /\ last.resp.answer = "generated"

\* C7 (as stated): in RAG mode, when every attempt to embed the question fails,
\* the request is not failed: retrieval is made and the generation step follows.
C7_EmbeddingFailureFallsBack ==
    (Asked /\ last.resp.qe = "raise") =>
       /\ Reached("retrieve")
       /\ Reached("generate")
       /\ last.resp.kind # "internal_error"

\* C8: a chat_message request on a document with no stored chunk never calls
\* the generator, stores no AI message and leaves the day's count as it was;
\* unless the quota, access or session check has rejected it, it finds mode
\* "empty" and ends as "no content" (404).
C8_EmptyDocumentNoContent ==
    (Asked /\ last.endpoint = "chat_message" /\ last.docs_exist
           /\ embeddings[last.doc_ids[1]] = <<>>) =>
       /\ ~Reached("generate")
       /\ ~last.resp.backend_called
       /\ last.stored_ai = 0
       /\ last.used_after = last.used_before
       /\ last.resp.kind \notin {"quota_exceeded", "access_denied", "bad_request"} =>
             /\ last.resp.mode = "empty"
             /\ last.resp.kind = "no_content"
             /\ last.resp.status = 404

C8_Witness ==
    /\ Asked
    /\ last.endpoint = "chat_message"
    /\ embeddings[last.doc_ids[1]] = <<>>
    /\ last.resp.mode = "empty"
    /\ last.resp.kind = "no_content"
    /\ last.stored_user = 1

\* the request selected its context and no document contributed a chunk
NothingRetrieved ==
    /\ Reached("retrieve")
    /\ \A i \in 1..Len(last.resp.selected) : last.resp.selected[i] = <<>>

\* C9 (as stated): in each chat endpoint, a request whose documents yield no
\* content makes no generation call and returns no generated answer.
C9_EmptyContextNeverGenerated ==
    (Asked /\ NothingRetrieved) =>
       /\ ~last.resp.backend_called
       /\ last.resp.answer = ""

\* C10 (as stated): in each chat endpoint, when the selected backend is not
\* configured or its generation call raises, the request ends as "model
\* unavailable", naming the backend and a reason.
C10_ModelUnavailableOutcome ==
    (Asked /\ Reached("generate")
           /\ (~last.configured \/ (last.resp.backend_called /\ last.gen = "raise"))) =>
       /\ last.resp.kind = "model_unavailable"
       /\ last.resp.model_named = BackendName(last.model)
       /\ last.resp.reason # ""

\* how often the handler reached `step`
Times(step) == Cardinality({i \in 1..Len(last.resp.calls) : last.resp.calls[i] = step})

\* C11 (as stated): in each chat endpoint and for either backend, a generation
\* call that exceeds its timeout is made once and ends the request in a failure
\* of its own: not a successful answer (no 200, no AI message stored), not the
\* generic internal error, and not with the reason of another model failure.
C11_TimeoutIsDistinctFailure ==
    (Asked /\ last.resp.backend_called /\ last.gen = "timeout") =>
       /\ Times("generate") = 1
       /\ last.resp.status # 200
       /\ last.stored_ai = 0
       /\ last.resp.kind \notin {"ok", "internal_error"}
       /\ last.resp.reason \notin {"", "exception_text", "not_configured"}

MultiEndpoints == {"multi_document_chat", "send_multi_session_message"}

\* the label "[KAYNAK: title]\n" of document d occurs in the text
HasLabel(t, d) ==
    \E i \in 1..Len(t) : t[i].k = "label" /\ t[i].f = (IF d = "d1" THEN 1 ELSE 2)

\* the content retrieved for the i-th listed document is not empty
HasContent(i) == \E j \in 1..Len(last.resp.selected[i]) :
                    TextLen(last.resp.selected[i][j].content) > 0

\* C17: in the two multi-document endpoints the combined context carries the
\* source label of a listed document only if content was retrieved for that
\* document, and a document without content does not make the request fail:
\* with a configured, answering backend the request is answered.
C17_LabelOnlyForNonEmptyContent ==
    (Asked /\ last.endpoint \in MultiEndpoints /\ Reached("generate")) =>
       /\ \A i \in 1..Len(last.doc_ids) :
             HasLabel(last.resp.context, last.doc_ids[i]) => HasContent(i)
       /\ (last.configured /\ last.gen = "ok") => last.resp.kind = "ok"

\* C17 witness: an answered question on two documents of which the first has
\* no chunk: the context names the second document only
C17_Witness ==
    /\ Asked
    /\ last.endpoint \in MultiEndpoints
    /\ Len(last.doc_ids) = 2
    /\ ~HasContent(1) /\ HasContent(2)
    /\ ~HasLabel(last.resp.context, last.doc_ids[1])
    /\ HasLabel(last.resp.context, last.doc_ids[2])
    /\ last.resp.kind = "ok"

\* the character ceilings as the specification states them
StatedCeiling(m) == IF m = "gemini" THEN 120000 ELSE 50000

\* text a is text b cut after some number of characters
IsPrefixOf(a, b) ==
    /\ Len(a) <= Len(b)
    /\ \A i \in 1..(Len(a) - 1) : a[i] = b[i]
    /\ a # <<>> => /\ [a[Len(a)] EXCEPT !.n = 0] = [b[Len(a)] EXCEPT !.n = 0]
                  /\ a[Len(a)].n <= b[Len(a)].n

\* the assembly of the contents retrieved for the listed documents, uncut
UntruncatedAssembly ==
    Join(Rule, AllContexts(last.doc_ids,
                   [d \in Range(last.doc_ids) |->
                       JoinChunks(last.resp.selected[
                           CHOOSE i \in 1..Len(last.doc_ids) : last.doc_ids[i] = d])]))

\* C18: in the two multi-document endpoints the combined context handed to the
\* generator is at most 120,000 (gemini) / 50,000 (deepseek) characters long,
\* is a prefix of the untruncated assembly, and is the assembly itself when
\* that is within the ceiling.
C18_CombinedContextCutAtCeiling ==
    (Asked /\ last.endpoint \in MultiEndpoints /\ Reached("generate")) =>
       /\ TextLen(last.resp.context) <= StatedCeiling(last.model)
       /\ IsPrefixOf(last.resp.context, UntruncatedAssembly)
       /\ TextLen(UntruncatedAssembly) <= StatedCeiling(last.model) =>
             last.resp.context = UntruncatedAssembly

\* C18 witness: an assembly longer than the ceiling, cut inside a chunk to
\* exactly the ceiling
C18_Witness ==
    /\ Asked
    /\ last.endpoint \in MultiEndpoints
    /\ Reached("generate")
    /\ TextLen(UntruncatedAssembly) > StatedCeiling(last.model)
    /\ TextLen(last.resp.context) = StatedCeiling(last.model)
    /\ last.resp.context[Len(last.resp.context)].n
          < UntruncatedAssembly[Len(last.resp.context)].n

\* C19 (as stated): the context chat_message hands to the generator is never
\* longer than the ceiling of the selected backend.
C19_SingleContextWithinCeiling ==
    (Asked /\ last.endpoint = "chat_message" /\ last.resp.backend_called) =>
       TextLen(last.resp.context) <= StatedCeiling(last.model)

\* the characters of all the chunks of the listed documents
RECURSIVE TotalChars(_)
TotalChars(doc_ids) ==
    IF doc_ids = <<>> THEN 0
    ELSE SumChars(embeddings[Head(doc_ids)]) + TotalChars(Tail(doc_ids))

\* the sum of what get_document_token_count returns for each listed document
RECURSIVE SumOfSingleEstimates(_)
SumOfSingleEstimates(doc_ids) ==
    IF doc_ids = <<>> THEN 0
    ELSE get_document_token_count(embeddings, Head(doc_ids))
         + SumOfSingleEstimates(Tail(doc_ids))

\* C20 (as stated): the estimate get_smart_context_multi compares with its
\* threshold is the total character length of all chunks of the listed
\* documents divided by 4, and it equals the sum of the single-document
\* estimates of get_document_token_count.
C20_MultiEstimateIsTotalDividedBy4 ==
    sel.fn = "multi" =>
       /\ sel.res.estimated = TotalChars(sel.doc_ids) \div 4
       /\ sel.res.estimated = SumOfSingleEstimates(sel.doc_ids)

(***************************************************************************)
(* Cache normalisation (deepseek_service.py).  Here a text is the sequence *)
(* of its characters; "acute" is U+0301 COMBINING ACUTE ACCENT, which NFC  *)
(* composes with a preceding "e" into the single character "e_acute".      *)
(***************************************************************************)
MaxLen == 6            \* characters of the longest text normalised
MaxApplications == 2   \* times the function is applied to its own output

Chars == {"e", "acute", " ", "\n", "\t"}
Whitespace == {" ", "\n", "\t"}
Strings == UNION {[1..n -> Chars] : n \in 0..MaxLen}

\* unicodedata.normalize('NFC', text)
RECURSIVE NFC(_)
NFC(t) ==
    IF Len(t) < 2 THEN t
    ELSE IF t[1] = "e" /\ t[2] = "acute"
         THEN <<"e_acute">> \o NFC(SubSeq(t, 3, Len(t)))
         ELSE <<t[1]>> \o NFC(Tail(t))

\* mutant of CollapseSpaces: runs of spaces are left as they are
CollapseSpacesSkipped(t) == t

\* re.sub(r' +', ' ', text)
RECURSIVE CollapseSpaces(_)
CollapseSpaces(t) ==
    IF Len(t) < 2 THEN t
    ELSE IF t[1] = " " /\ t[2] = " " THEN CollapseSpaces(Tail(t))
         ELSE <<t[1]>> \o CollapseSpaces(Tail(t))

\* re.sub(r'\n{3,}', '\n\n', text)
RECURSIVE CollapseNewlines(_)
CollapseNewlines(t) ==
    IF Len(t) < 3 THEN t
    ELSE IF t[1] = "\n" /\ t[2] = "\n" /\ t[3] = "\n" THEN CollapseNewlines(Tail(t))
         ELSE <<t[1]>> \o CollapseNewlines(Tail(t))

\* text.split('\n'), line being the part of the current line read so far
RECURSIVE SplitLines(_, _)
SplitLines(t, line) ==
    IF t = <<>> THEN <<line>>
    ELSE IF Head(t) = "\n" THEN <<line>> \o SplitLines(Tail(t), <<>>)
         ELSE SplitLines(Tail(t), Append(line, Head(t)))

\* str.rstrip()
RECURSIVE Rstrip(_)
Rstrip(t) ==
    IF t # <<>> /\ t[Len(t)] \in Whitespace THEN Rstrip(SubSeq(t, 1, Len(t) - 1)) ELSE t

RECURSIVE Lstrip(_)
Lstrip(t) == IF t # <<>> /\ Head(t) \in Whitespace THEN Lstrip(Tail(t)) ELSE t

\* str.strip()
Strip(t) == Lstrip(Rstrip(t))

\* '\n'.join([line.rstrip() for line in text.split('\n')])
RstripLines(t) ==
    LET lines == SplitLines(t, <<>>)
    IN Join("\n", [i \in 1..Len(lines) |-> Rstrip(lines[i])])

normalize_text_for_cache(t) ==
    IF t = <<>> THEN <<>>
    ELSE Strip(RstripLines(CollapseNewlines(CollapseSpaces(NFC(t)))))

(***************************************************************************)
(* SpecNorm: normalize_text_for_cache applied to a text, and again to what *)
(* it returned                                                             *)
(***************************************************************************)
InitNorm ==
    /\ today = 1
    /\ deepseek_enabled = TRUE
    /\ profiles = [u \in Users |-> NoProfile]
    /\ documents = [d \in DocIds |-> NoDocument]
    /\ embeddings = [d \in DocIds |-> <<>>]
    /\ chat_sessions = <<>>
    /\ chat_messages = <<>>
    /\ multi_sessions = <<>>
    /\ multi_messages = <<>>
    /\ served = 0
    /\ last = NoRequest
    /\ sel = NoSelection
    /\ raw_text \in Strings
    /\ requests = <<>>
    /\ runs = [d \in DocIds |-> NoRun]

NormalizeTextForCache ==
    /\ IF sel = NoSelection THEN TRUE ELSE sel.n < MaxApplications
    /\ sel' = [fn |-> "normalize", input |-> raw_text,
               output |-> normalize_text_for_cache(raw_text),
               n |-> IF sel = NoSelection THEN 1 ELSE sel.n + 1]
    /\ raw_text' = sel'.output
    /\ UNCHANGED <<today, deepseek_enabled, profiles, documents, embeddings,
                   chat_sessions, chat_messages, multi_sessions, multi_messages, served,
                   last, requests, runs>>

NextNorm == NormalizeTextForCache

SpecNorm == InitNorm /\ [][NextNorm]_vars

(***************************************************************************)
(* Claims on the cache normalisation (checked under SpecNorm)              *)
(***************************************************************************)
Normalized == sel.fn = "normalize"

\* C14 (as stated): normalising a text that normalize_text_for_cache returned
\* gives that text back.
C14_NormalizeIdempotent ==
    (Normalized /\ sel.n >= 2) => sel.output = sel.input

\* C15 (as stated): what normalize_text_for_cache returns never holds three
\* newlines in a row.
C15_NoThreeNewlines ==
    Normalized =>
       ~\E i \in 1..(Len(sel.output) - 2) :
            sel.output[i] = "\n" /\ sel.output[i + 1] = "\n" /\ sel.output[i + 2] = "\n"

\* the characters of t that are not whitespace, in their order
RECURSIVE NonWhitespace(_)
NonWhitespace(t) ==
    IF t = <<>> THEN <<>>
    ELSE (IF Head(t) \in {" ", "\n", "\t"} THEN <<>> ELSE <<Head(t)>>)
         \o NonWhitespace(Tail(t))

\* C16: what normalize_text_for_cache returns never holds two spaces in a row,
\* and its non-whitespace characters are those of the NFC form of the input,
\* in the same order.
C16_SingleSpacesContentKept ==
    Normalized =>
       /\ ~\E i \in 1..(Len(sel.output) - 1) :
              sel.output[i] = " " /\ sel.output[i + 1] = " "
       /\ NonWhitespace(sel.output) = NonWhitespace(NFC(sel.input))

\* C16 witness: a text with a run of spaces between two words, one of them
\* written with a combining accent
C16_Witness ==
    /\ Normalized
    /\ sel.n = 1
    /\ \E i \in 1..(Len(sel.input) - 3) :
          /\ sel.input[i] \notin {" ", "\n", "\t"}
          /\ sel.input[i + 1] = " " /\ sel.input[i + 2] = " "
          /\ sel.input[i + 3] \notin {" ", "\n", "\t"}
    /\ NFC(sel.input) # sel.input
    /\ Len(sel.output) = Len(sel.input) - 2

(***************************************************************************)
(* SpecQuota: chat requests of u1 that overlap.  A handler runs without    *)
(* interruption up to the await of the generation call and again from the  *)
(* call's return to its end, so a request is two steps: BeginRequest (the  *)
(* quota check and what the handler commits before it asks the backend)    *)
(* and FinishRequest (the AI message and increment_query_count).  The      *)
(* backend and the embedding provider are healthy; u1 owns the ingested    *)
(* document d1 and has used all but one of the questions of day 1.         *)
(***************************************************************************)
MaxInFlight == 3   \* requests begun in one run

QuotaEndpoints == {"chat_message", "multi_document_chat"}

InitQuota ==
    /\ today = 1
    /\ deepseek_enabled = TRUE
    /\ profiles = [u \in Users |-> IF u = "u1" THEN UsedProfile ELSE NoProfile]
    /\ documents = [d \in DocIds |->
          IF d = "d1"
          THEN [exists |-> TRUE, user_id |-> "u1", visibility |-> "private",
                is_approved |-> TRUE, status |-> "completed", file |-> 101]
          ELSE NoDocument]
    /\ embeddings = [d \in DocIds |-> IF d = "d1" THEN IngestedRows(101, "none") ELSE <<>>]
    /\ chat_sessions = <<>>
    /\ chat_messages = <<>>
    /\ multi_sessions = <<>>
    /\ multi_messages = <<>>
    /\ served = 0
    /\ last = NoRequest
    /\ sel = NoSelection
    /\ raw_text = <<>>
    /\ requests = <<>>
    /\ runs = [d \in DocIds |-> NoRun]

\* the handler from its start to the await of the generation call: lim is what
\* check_query_limit returned, out what the handler would leave behind were
\* it to run to its end now.  The request keeps its UserProfile object (orm).
Begin(endpoint, lim, out) ==
    /\ Running
    /\ Len(requests) < MaxInFlight
    /\ profiles' = [profiles EXCEPT !["u1"] = lim.profile]
    /\ chat_sessions' = out.sessions
    /\ chat_messages' = IF lim.allowed /\ endpoint = "chat_message"
                        THEN Append(chat_messages, UserMsg(Len(out.sessions)))
                        ELSE chat_messages
    /\ requests' = Append(requests,
          [endpoint |-> endpoint, day |-> today, seen |-> profiles["u1"],
           allowed |-> lim.allowed, remaining |-> lim.remaining, used |-> lim.used,
           orm |-> lim.profile, session_id |-> Len(out.sessions),
           pc |-> IF lim.allowed THEN "generating" ELSE "rejected",
           rejection |-> IF lim.allowed THEN NoResponse ELSE out.resp,
           finished |-> NoDate])
    /\ UNCHANGED <<today, deepseek_enabled, documents, embeddings, multi_sessions,
                   multi_messages, served, last, sel, raw_text, runs>>

BeginRequest(endpoint) ==
    Begin(endpoint, check_query_limit(get_or_create_profile(profiles, "u1"), today),
          IF endpoint = "chat_message"
          THEN chat_message("u1", 0, "d1", "q1", "deepseek", Healthy.prov, Healthy.gen)
          ELSE multi_document_chat("u1", <<"d1">>, "q1", "deepseek", Healthy.prov,
                                   Healthy.gen))

\* the handler from the return of the generation call to its end.  In
\* chat_message the commit of the user message has expired the UserProfile
\* object, so increment_query_count reads the row as it is now; in
\* multi_document_chat nothing was committed since the check and the object
\* still holds what the check read.
FinishRequest(i) ==
    /\ Running
    /\ requests[i].pc = "generating"
    /\ profiles' = [profiles EXCEPT !["u1"] =
          increment_query_count(IF requests[i].endpoint = "chat_message"
                                THEN profiles["u1"] ELSE requests[i].orm, today)]
    /\ chat_messages' = IF requests[i].endpoint = "chat_message"
                        THEN Append(chat_messages,
                                    AiMsg(requests[i].session_id, "generated"))
                        ELSE chat_messages
    /\ requests' = [requests EXCEPT ![i].pc = "answered", ![i].finished = today]
    /\ UNCHANGED <<today, deepseek_enabled, documents, embeddings, chat_sessions,
                   multi_sessions, multi_messages, served, last, sel, raw_text, runs>>

NextQuota ==
    \/ NextDay
    \/ \E endpoint \in QuotaEndpoints : BeginRequest(endpoint)
    \/ \E i \in 1..Len(requests) : FinishRequest(i)

SpecQuota == InitQuota /\ [][NextQuota]_vars

(***************************************************************************)
(* Claims on the daily quota (checked under SpecQuota)                     *)
(***************************************************************************)
\* the requests that began and were answered on day D
AnsweredOn(D) ==
    Cardinality({i \in 1..Len(requests) :
                    /\ requests[i].pc = "answered"
                    /\ requests[i].day = D
                    /\ requests[i].finished = D})

\* the answers u1 had obtained on day D before the run began
AnsweredEarlier(D) == IF D = 1 THEN DAILY_QUERY_LIMIT - 1 ELSE 0

\* C12 (as stated): however the chat requests of one user overlap, the
\* requests answered for the user on one calendar day are at most
\* DAILY_QUERY_LIMIT (10).
C12_AnswersPerDayWithinLimit ==
    \A D \in 1..today : AnsweredEarlier(D) + AnsweredOn(D) <= DAILY_QUERY_LIMIT

\* C13: a request whose quota check finds the count of its own day at the
\* limit is rejected as quota exceeded with remaining 0; a request whose check
\* finds a count dated an earlier day (the limit reached or not) finds it
\* reset to 0 and is allowed.
C13_ExhaustedUntilDailyReset ==
    \A i \in 1..Len(requests) :
       /\ (requests[i].seen.last_query_date = requests[i].day
           /\ requests[i].seen.daily_query_count >= DAILY_QUERY_LIMIT) =>
             /\ requests[i].pc = "rejected"
             /\ requests[i].rejection.kind = "quota_exceeded"
             /\ requests[i].rejection.remaining = 0
             /\ requests[i].remaining = 0
       /\ requests[i].seen.last_query_date < requests[i].day =>
             /\ requests[i].allowed
             /\ requests[i].used = 0
             /\ requests[i].orm.daily_query_count = 0
             /\ requests[i].orm.last_query_date = requests[i].day
             /\ requests[i].pc # "rejected"

\* C13 witness: three requests one after the other: the tenth of day 1 is
\* answered, the next of day 1 is rejected, the first of day 2 is answered
C13_Witness ==
    /\ Len(requests) = 3
    /\ requests[1].day = 1 /\ requests[1].finished = 1
    /\ requests[2].day = 1
    /\ requests[2].seen.daily_query_count = DAILY_QUERY_LIMIT
    /\ requests[2].pc = "rejected"
    /\ requests[3].day = 2
    /\ requests[3].seen.daily_query_count = DAILY_QUERY_LIMIT
    /\ requests[3].seen.last_query_date = 1
    /\ requests[3].pc = "answered"
    /\ profiles["u1"].daily_query_count = 1

(***************************************************************************)
(* Access at the time of the work, and what a failed request leaves behind *)
(***************************************************************************)
SessionEndpoints == {"chat_message", "send_multi_session_message"}

\* C28 (as stated): whenever chat_message or send_multi_session_message makes
\* its retrieval and generation steps on a document, the user is at that
\* moment the owner of the document, an admin, or the document is public and
\* approved; also when the request continues a session created while the user
\* still had access.
C28_AccessAtTimeOfWork ==
    (Asked /\ last.endpoint \in SessionEndpoints
           /\ Reached("retrieve") /\ Reached("generate")) => last.has_access

FailureKinds == {"no_content", "model_unavailable", "internal_error"}

\* C30 (as stated): a chat_message or send_multi_session_message request that
\* ends in a failure outcome (no content, model unavailable, timeout, internal
\* error) leaves the stored sessions and messages as they were: no new session
\* and no user message without a following AI message.
C30_FailureLeavesNothingStored ==
    (Asked /\ last.endpoint \in SessionEndpoints /\ last.resp.kind \in FailureKinds) =>
       /\ last.stored_user = 0
       /\ last.stored_ai = 0
       /\ last.via_session \/ chat_sessions = <<>>

(***************************************************************************)
(* Order of the source blocks                                              *)
(***************************************************************************)
\* the documents of the request in the order the caller listed them: the
\* request's list, or the list the session was created with
ListedOrder ==
    IF last.endpoint = "send_multi_session_message"
    THEN multi_sessions[last.session_id].listed
    ELSE last.doc_ids

\* the position of the label of document d in text t
LabelPos(t, d) ==
    CHOOSE i \in 1..Len(t) : t[i].k = "label" /\ t[i].f = (IF d = "d1" THEN 1 ELSE 2)

\* C24 (as stated): in the two multi-document endpoints the labelled source
\* blocks stand in the combined context in the order in which the caller
\* listed the documents (in the request, or when creating the session): of two
\* documents with a block, the one listed earlier comes first.
C24_BlocksInListedOrder ==
    (Asked /\ last.endpoint \in MultiEndpoints /\ Reached("generate")) =>
       \A i \in 1..Len(ListedOrder), j \in 1..Len(ListedOrder) :
          (/\ i < j
           /\ HasLabel(last.resp.context, ListedOrder[i])
           /\ HasLabel(last.resp.context, ListedOrder[j])) =>
             LabelPos(last.resp.context, ListedOrder[i])
                < LabelPos(last.resp.context, ListedOrder[j])

(***************************************************************************)
(* SpecEmbed: one call of GeminiService.generate_embedding against a       *)
(* provider whose calls answer or fail after some seconds                  *)
(***************************************************************************)
ATTEMPT_TIMEOUT == 30

\* what genai.embed_content does when called: it returns or raises, after
\* some seconds
ProviderCalls == {[after |-> s, result |-> r] : s \in {5, 45}, r \in {"ok", "error"}}

\* asyncio.wait_for(..., timeout=30.0): the outcome of the attempt
wait_for(call) == IF call.after > ATTEMPT_TIMEOUT THEN "timeout" ELSE call.result

\* the seconds the attempt took
AttemptSeconds(call) ==
    IF call.after > ATTEMPT_TIMEOUT THEN ATTEMPT_TIMEOUT ELSE call.after

RECURSIVE Pow2(_)
Pow2(n) == IF n = 0 THEN 1 ELSE 2 * Pow2(n - 1)

\* asyncio.sleep(2 ** attempt), attempt counted from 0
Backoff(attempt) == Pow2(attempt)

\* the sleeps of the retry loop: one after each failed attempt that is not the
\* last one (`if attempt < retry_count - 1`)
generate_embedding_sleeps(prov) ==
    LET i == FirstOk(prov.attempts)
        failed == IF i > 0 THEN i - 1 ELSE RETRY_COUNT
    IN [a \in 1..(IF failed < RETRY_COUNT - 1 THEN failed ELSE RETRY_COUNT - 1) |->
           Backoff(a - 1)]

InitEmbed ==
    /\ EmptyTables
    /\ deepseek_enabled = TRUE
    /\ documents = [d \in DocIds |-> NoDocument]
    /\ embeddings = [d \in DocIds |-> <<>>]

GenerateEmbedding(q, calls, vec) ==
    /\ sel = NoSelection
    /\ LET prov == [attempts |-> [a \in 1..RETRY_COUNT |-> wait_for(calls[a])],
                    vec |-> vec]
           res == generate_query_embedding(q, prov)
       IN sel' = [fn |-> "embed", question |-> q, calls |-> calls, prov |-> prov,
                  res |-> res,
                  seconds |-> [a \in 1..res.tries |-> AttemptSeconds(calls[a])],
                  sleeps |-> generate_embedding_sleeps(prov)]
    /\ UNCHANGED <<today, deepseek_enabled, profiles, documents, embeddings,
                   chat_sessions, chat_messages, multi_sessions, multi_messages, served,
                   last, raw_text, requests, runs>>

NextEmbed ==
    \E q \in Questions, calls \in [1..RETRY_COUNT -> ProviderCalls],
       vec \in {"vector", "zero", "empty"} : GenerateEmbedding(q, calls, vec)

SpecEmbed == InitEmbed /\ [][NextEmbed]_vars

\* the backoff schedule as the specification states it
StatedBackoff == <<1, 2, 4>>

\* attempt a of the observed call failed
AttemptFailed(a) == sel.prov.attempts[a] # "ok"

\* C22 (as stated): generate_embedding makes at most 3 attempts, each taking at
\* most 30 seconds; it returns the vector of the first attempt that succeeds;
\* after failed attempts it waits 1, 2 and 4 seconds; and after the last
\* failed attempt it raises to the caller instead of returning a value.
C22_ThreeAttemptsWithBackoff ==
    sel.fn = "embed" =>
       /\ sel.res.tries <= 3
       /\ \A a \in 1..sel.res.tries : sel.seconds[a] <= 30
       /\ sel.res.ok =>
             /\ ~AttemptFailed(sel.res.tries)
             /\ \A a \in 1..(sel.res.tries - 1) : AttemptFailed(a)
             /\ sel.res.value.kind = sel.prov.vec
             /\ sel.sleeps = SubSeq(StatedBackoff, 1, sel.res.tries - 1)
       /\ ~sel.res.ok =>
             /\ \A a \in 1..3 : AttemptFailed(a)
             /\ sel.res.value.kind = "none"
             /\ sel.res.error = sel.prov.attempts[3]
             /\ sel.sleeps = StatedBackoff

(***************************************************************************)
(* SpecCache: the message lists DeepSeekService sends for two questions on *)
(* the same documents (deepseek_service.py).  The chunk stores are those   *)
(* of SpecCtx; the backend is configured.                                  *)
(***************************************************************************)
WhitespacePieces == {"newline", "blank_line"}

RECURSIVE LstripPieces(_)
LstripPieces(t) ==
    IF t # <<>> /\ Head(t).k \in WhitespacePieces THEN LstripPieces(Tail(t)) ELSE t

RECURSIVE RstripPieces(_)
RstripPieces(t) ==
    IF t # <<>> /\ t[Len(t)].k \in WhitespacePieces
    THEN RstripPieces(SubSeq(t, 1, Len(t) - 1))
    ELSE t

\* normalize_text_for_cache on a text of literal pieces: the whitespace at
\* both ends is removed, every other piece is replaced by its normal form
NormalizedPieces(t) ==
    LET s == RstripPieces(LstripPieces(t))
    IN [i \in 1..Len(s) |-> [normal_form_of |-> s[i]]]

\* mutant of Messages: the question is written into the context message
MessagesQuestionInContext(system, heading, context, question) ==
    <<[role |-> "system", heading |-> system, text |-> <<>>, question |-> ""],
      [role |-> "user", heading |-> heading, text |-> NormalizedPieces(context),
       question |-> question],
      [role |-> "user", heading |-> "SORU: ", text |-> <<>>, question |-> question]>>

\* the list `messages` of _generate: system prompt, normalized context under
\* its heading, question
Messages(system, heading, context, question) ==
    <<[role |-> "system", heading |-> system, text |-> <<>>, question |-> ""],
      [role |-> "user", heading |-> heading, text |-> NormalizedPieces(context),
       question |-> ""],
      [role |-> "user", heading |-> "SORU: ", text |-> <<>>, question |-> question]>>

\* DeepSeekService.generate_answer
generate_answer_messages(context, question) ==
    Messages("SYSTEM_PROMPT_SINGLE", "DOKUMAN ICERIGI:", context, question)

\* DeepSeekService.generate_answer_multi_doc
generate_answer_multi_doc_messages(combined_context, question) ==
    Messages("SYSTEM_PROMPT_MULTI", "KAYNAK MATERYALLERI:", combined_context, question)

\* what chat_message sends to DeepSeek for the question: nothing when the
\* question could not be embedded or the document has no content
chat_message_sends(d, question, prov) ==
    LET ctx == get_smart_context(embeddings, d, question, "deepseek", prov)
    IN [mode |-> ctx.mode,
        sent |-> ~ctx.raised /\ ~NoContent(ctx),
        messages |-> IF ctx.raised \/ NoContent(ctx) THEN <<>>
                     ELSE generate_answer_messages(ctx.context, question)]

\* what multi_document_chat sends to DeepSeek for the question
multi_document_chat_sends(doc_ids, question, prov) ==
    LET ctx == get_smart_context_multi(embeddings, doc_ids, question, "deepseek", prov)
    IN [mode |-> ctx.mode,
        sent |-> ~ctx.raised,
        messages |-> IF ctx.raised THEN <<>>
                     ELSE generate_answer_multi_doc_messages(
                              CombinedContext(doc_ids, ctx.doc_contexts, "deepseek"),
                              question)]

\* two questions on the same documents, one after the other, nothing stored
\* in between
AskTwice(endpoint, doc_ids, qa, qb, prov) ==
    /\ sel = NoSelection
    /\ endpoint = "chat_message" => Len(doc_ids) = 1
    /\ LET a == IF endpoint = "chat_message"
                THEN chat_message_sends(doc_ids[1], qa, prov)
                ELSE multi_document_chat_sends(doc_ids, qa, prov)
           b == IF endpoint = "chat_message"
                THEN chat_message_sends(doc_ids[1], qb, prov)
                ELSE multi_document_chat_sends(doc_ids, qb, prov)
       IN sel' = [fn |-> "messages", endpoint |-> endpoint, doc_ids |-> doc_ids,
                  questions |-> <<qa, qb>>, prov |-> prov, first |-> a, second |-> b]
    /\ UNCHANGED <<today, deepseek_enabled, profiles, documents, embeddings,
                   chat_sessions, chat_messages, multi_sessions, multi_messages, served,
                   last, raw_text, requests, runs>>

NextCache ==
    \E endpoint \in {"chat_message", "multi_document_chat"}, doc_ids \in DocLists,
       prov \in Providers : AskTwice(endpoint, doc_ids, "q1", "q2", prov)

SpecCache == InitCtx /\ [][NextCache]_vars

\* both questions were sent to the backend
BothSent == sel.fn = "messages" /\ sel.first.sent /\ sel.second.sent

\* each list is system message, context message, question message, in this
\* order, and the two system messages are the same
SameFraming ==
    /\ Len(sel.first.messages) = 3 /\ Len(sel.second.messages) = 3
    /\ sel.first.messages[1].role = "system"
    /\ sel.first.messages[1] = sel.second.messages[1]
    /\ sel.first.messages[2].question = "" /\ sel.second.messages[2].question = ""
    /\ sel.first.messages[3].question = sel.questions[1]
    /\ sel.second.messages[3].question = sel.questions[2]

QuestionIndependentSelection ==
    \/ sel.first.mode = "full"
    \/ ~Truthy([kind |-> sel.prov.vec])

get_document(user, d) ==
    IF ~documents[d].exists THEN Rejected(404, "not_found")
    ELSE IF ~HasAccess(profiles[user], user, documents[d])
    THEN Rejected(403, "access_denied")
    ELSE [NoResponse EXCEPT !.status = 200, !.kind = "ok"]

\* a POST /chat/message of the user with this document_id and no session_id
\* opens a chat session on the document
CanStartChat(u, d) ==
    Len(chat_message(u, 0, d, "q1", "gemini", Healthy.prov, Healthy.gen).sessions)
        > Len(chat_sessions)

CanFetch(u, d) == get_document(u, d).status = 200

IsAdmin(tbl, u) == tbl[u].exists /\ tbl[u].role = "admin"

\* a user who is neither owner nor admin opens a chat on a document or
\* fetches it only if the document is public and approved
OthersOnlyPublicApproved ==
    \A u \in Users, d \in DocIds :
       (/\ documents[d].exists
        /\ documents[d].user_id # u
        /\ ~IsAdmin(profiles, u)
        /\ CanStartChat(u, d) \/ CanFetch(u, d)) =>
          documents[d].visibility = "public" /\ documents[d].is_approved

\* the step is approve_document on the public document d, made by an admin
ApprovedByAdmin(d) ==
    /\ documents[d].exists
    /\ documents[d].visibility = "public"
    /\ ~documents[d].is_approved
    /\ \E u \in Users : IsAdmin(profiles, u) /\ IsAdmin(profiles', u)
    /\ documents' = [documents EXCEPT ![d].is_approved = TRUE]

\* document d is public and approved after the step and was not before
BecomesPublicApproved(d) ==
    /\ documents'[d].exists /\ documents'[d].visibility = "public"
    /\ documents'[d].is_approved
    /\ ~(documents[d].exists /\ documents[d].visibility = "public"
            /\ documents[d].is_approved)

\* no step changes the visibility or the approval of a private document
PrivateStaysAsCreated(d) ==
    (documents[d].exists /\ documents[d].visibility = "private"
        /\ documents'[d].exists) =>
       /\ documents'[d].visibility = "private"
       /\ documents'[d].is_approved = documents[d].is_approved

MOCK_FILE == 200

IngestFiles == {MOCK_FILE, 0, 1, 4, 101, MaxPages}
PageFaults == {"none", "skip_first", "clean_last"}

\* the text ocr_pdf_file returns, split into chunks of 2000 characters
OcrChunks == <<<<Seg("ocr", 0, 1, 2000)>>, <<Seg("ocr", 0, 2, 2000)>>>>

RECURSIVE SumLen(_)
SumLen(texts) == IF texts = <<>> THEN 0 ELSE TextLen(Head(texts)) + SumLen(Tail(texts))

\* page_texts once extraction is over: the pages with text, or the OCR chunks
\* when the pages hold fewer than 100 characters and the OCR succeeds
ExtractedTexts(f, ocr_ok) ==
    IF SumLen(PageTexts(f)) < 100 /\ ocr_ok THEN OcrChunks ELSE PageTexts(f)

\* the single row of the mock branch; page_number is left to its default 0
MockRows == <<[page_number |-> 0, content |-> <<Seg("mock", 0, 1, 81)>>, angle |-> 1]>>

\* mutant of NextPageIndex: the counter is not advanced
NextPageIndexStuck(page_index, chunk_len) == page_index

\* page_index += len(chunk)
NextPageIndex(page_index, chunk_len) == page_index + chunk_len

\* mutant of ForeignKeyHolds: document_embeddings.document_id is not checked
ForeignKeyUnchecked(tbl, d) == TRUE

\* ForeignKey("documents.id") of document_embeddings.document_id: a row can
\* be inserted only while the document row exists
ForeignKeyHolds(tbl, d) == tbl[d].exists

\* mutant of CommitBatch_rows: a rollback empties the table
RollbackDropsStored(stored, pending, ok) == IF ok THEN stored \o pending ELSE <<>>

\* db.commit() of a batch, or db.rollback() when the commit raises
CommitBatch_rows(stored, pending, ok) == IF ok THEN stored \o pending ELSE stored

\* the last page of the batch that starts at page i
BatchEnd(texts, i) ==
    IF i + BATCH_SIZE - 1 > Len(texts) THEN Len(texts) ELSE i + BATCH_SIZE - 1

Ended(run, how) == [run EXCEPT !.pc = "done", !.end = how, !.pending = <<>>]

\* the `except Exception` of _process_document: the status is set to "failed"
\* through a fresh session if the document row is still there
FailedStatus(d) ==
    IF documents[d].exists THEN [documents EXCEPT ![d].status = "failed"] ELSE documents

InitIngest ==
    /\ today = 1
    /\ deepseek_enabled = TRUE
    /\ profiles \in {[u \in Users |-> IF u = "u1" THEN [NewProfile EXCEPT !.role = r]
                                      ELSE NoProfile] : r \in {"user", "admin"}}
    /\ \E f \in IngestFiles :
          documents = [d \in DocIds |->
              IF d = "d1"
              THEN [exists |-> TRUE, user_id |-> "u1",
                    visibility |-> IF f = MOCK_FILE THEN "private" ELSE "public",
                    is_approved |-> FALSE, status |-> "pending", file |-> f]
              ELSE NoDocument]
    /\ embeddings = [d \in DocIds |-> <<>>]
    /\ chat_sessions = <<>>
    /\ chat_messages = <<>>
    /\ multi_sessions = <<>>
    /\ multi_messages = <<>>
    /\ served = 0
    /\ last = NoRequest
    /\ sel = NoSelection
    /\ raw_text = <<>>
    /\ requests = <<>>
    /\ runs = [d \in DocIds |-> NoRun]

\* lines 16-26: the task finds the document and commits status "processing"
StartProcessing(d, fault) ==
    /\ runs[d].pc = "none"
    /\ documents[d].exists /\ documents[d].status = "pending"
    /\ documents' = [documents EXCEPT ![d].status = "processing"]
    /\ runs' = [runs EXCEPT ![d] =
                  [pc |-> "extract", file |-> documents[d].file, fault |-> fault,
                   texts |-> <<>>, next |-> 1, page_index |-> 0, pending |-> <<>>,
                   commits |-> <<>>, end |-> ""]]
    /\ UNCHANGED <<today, deepseek_enabled, profiles, embeddings, chat_sessions,
                   chat_messages, multi_sessions, multi_messages, served, last, sel,
                   raw_text, requests>>

\* lines 28-122 and 58-70: download and extraction, or the mock branch.
\* Reading document.file_url after the commit reloads the row and raises
\* when the document was deleted; a failed download raises as well.
ExtractText(d, download_ok, ocr_ok, embed_ok) ==
    /\ runs[d].pc = "extract"
    /\ IF ~documents[d].exists
       THEN /\ runs' = [runs EXCEPT ![d] = Ended(@, "gone")]
            /\ UNCHANGED <<documents, embeddings>>
       ELSE IF runs[d].file = MOCK_FILE
       THEN IF embed_ok
            THEN /\ embeddings' = [embeddings EXCEPT ![d] = @ \o MockRows]
                 /\ documents' = [documents EXCEPT ![d].status = "completed"]
                 /\ runs' = [runs EXCEPT ![d] = Ended(@, "completed")]
            ELSE /\ documents' = FailedStatus(d)
                 /\ runs' = [runs EXCEPT ![d] = Ended(@, "failed")]
                 /\ UNCHANGED embeddings
       ELSE IF ~download_ok
       THEN /\ documents' = FailedStatus(d)
            /\ runs' = [runs EXCEPT ![d] = Ended(@, "failed")]
            /\ UNCHANGED embeddings
       ELSE /\ runs' = [runs EXCEPT ![d].pc = "batch",
                                    ![d].texts = ExtractedTexts(runs[d].file, ocr_ok)]
            /\ UNCHANGED <<documents, embeddings>>
    /\ UNCHANGED <<today, deepseek_enabled, profiles, chat_sessions, chat_messages,
                   multi_sessions, multi_messages, served, last, sel, raw_text, requests>>

\* lines 127-175: the embeddings of one batch are gathered and its rows added
\* to the session; document.id is read for the first row, which raises when
\* the document was deleted
EmbedBatch(d) ==
    /\ runs[d].pc = "batch"
    /\ runs[d].next <= Len(runs[d].texts)
    /\ LET run == runs[d]
           j == BatchEnd(run.texts, run.next)
           rows == BatchRows(run.texts, run.fault, run.next, j, run.page_index)
       IN runs' = [runs EXCEPT ![d] =
                     IF rows # <<>> /\ ~documents[d].exists THEN Ended(run, "gone")
                     ELSE [run EXCEPT !.pc = "commit", !.pending = rows,
                              !.page_index = NextPageIndex(run.page_index,
                                                           j - run.next + 1)]]
    /\ UNCHANGED <<today, deepseek_enabled, profiles, documents, embeddings,
                   chat_sessions, chat_messages, multi_sessions, multi_messages, served,
                   last, sel, raw_text, requests>>

\* lines 177-183: the batch is committed, or rolled back when the commit raises
CommitBatch(d, db_ok) ==
    /\ runs[d].pc = "commit"
    /\ LET run == runs[d]
           fk == run.pending = <<>> \/ ForeignKeyHolds(documents, d)
       IN /\ embeddings' = [embeddings EXCEPT ![d] =
                               CommitBatch_rows(@, run.pending, db_ok /\ fk)]
          /\ runs' = [runs EXCEPT ![d] =
                        [run EXCEPT !.pc = "batch", !.pending = <<>>,
                                    !.next = run.next + BATCH_SIZE,
                                    !.commits = Append(@, IF ~fk THEN "fk_violation"
                                                          ELSE IF db_ok THEN "ok"
                                                          ELSE "rollback")]]
    /\ UNCHANGED <<today, deepseek_enabled, profiles, documents, chat_sessions,
                   chat_messages, multi_sessions, multi_messages, served, last, sel,
                   raw_text, requests>>

\* lines 188-208: after the last batch the status is set to "completed"; the
\* UPDATE of a deleted row raises, as does a failing commit
FinishProcessing(d, db_ok) ==
    /\ runs[d].pc = "batch"
    /\ runs[d].next > Len(runs[d].texts)
    /\ IF ~documents[d].exists
       THEN /\ runs' = [runs EXCEPT ![d] = Ended(@, "gone")]
            /\ UNCHANGED documents
       ELSE IF db_ok
       THEN /\ documents' = [documents EXCEPT ![d].status = "completed"]
            /\ runs' = [runs EXCEPT ![d] = Ended(@, "completed")]
       ELSE /\ documents' = FailedStatus(d)
            /\ runs' = [runs EXCEPT ![d] = Ended(@, "failed")]
    /\ UNCHANGED <<today, deepseek_enabled, profiles, embeddings, chat_sessions,
                   chat_messages, multi_sessions, multi_messages, served, last, sel,
                   raw_text, requests>>

\* the chat sessions that stay when those of document d are deleted
RECURSIVE SessionsWithout(_, _)
SessionsWithout(sessions, d) ==
    IF sessions = <<>> THEN <<>>
    ELSE (IF Head(sessions).document_id = d THEN <<>> ELSE <<Head(sessions)>>)
         \o SessionsWithout(Tail(sessions), d)

\* the id of session i among the sessions that stay
IdWithout(i, d) ==
    Cardinality({j \in 1..i : chat_sessions[j].document_id # d})

\* the chat messages that stay: those of the sessions that stay
RECURSIVE MessagesWithout(_, _)
MessagesWithout(msgs, d) ==
    IF msgs = <<>> THEN <<>>
    ELSE (IF chat_sessions[Head(msgs).session_id].document_id = d THEN <<>>
          ELSE <<[Head(msgs) EXCEPT !.session_id = IdWithout(@, d)]>>)
         \o MessagesWithout(Tail(msgs), d)

RECURSIVE ListWithout(_, _)
ListWithout(doc_ids, d) ==
    IF doc_ids = <<>> THEN <<>>
    ELSE (IF Head(doc_ids) = d THEN <<>> ELSE <<Head(doc_ids)>>)
         \o ListWithout(Tail(doc_ids), d)

\* lines 580-599 of documents.py, 426-445 of admin.py: the chunks, the chat
\* messages and chat sessions of the document and the document row are
\* deleted in one transaction (with the rows of multi_session_documents)
DeleteRows(d) ==
    /\ embeddings' = [embeddings EXCEPT ![d] = <<>>]
    /\ chat_messages' = MessagesWithout(chat_messages, d)
    /\ chat_sessions' = SessionsWithout(chat_sessions, d)
    /\ multi_sessions' = [i \in DOMAIN multi_sessions |->
                             [multi_sessions[i] EXCEPT
                                 !.listed = ListWithout(@, d),
                                 !.documents = ListWithout(@, d)]]
    /\ documents' = [documents EXCEPT ![d] = NoDocument]

\* DELETE /documents/{document_id}: by an admin, or by the owner
DeleteDocument(u, d) ==
    /\ documents[d].exists
    /\ IsAdmin(profiles, u) \/ documents[d].user_id = u
    /\ DeleteRows(d)
    /\ UNCHANGED <<today, deepseek_enabled, profiles, multi_messages, served, last, sel,
                   raw_text, requests, runs>>

\* PUT /admin/documents/{document_id}/reject: by an admin
RejectDocument(u, d) ==
    /\ profiles' = verify_admin_role(profiles, u)
    /\ IF IsAdmin(profiles', u) /\ documents[d].exists
       THEN DeleteRows(d)
       ELSE UNCHANGED <<embeddings, chat_messages, chat_sessions, multi_sessions,
                        documents>>
    /\ <<profiles', documents'>> # <<profiles, documents>>
    /\ UNCHANGED <<today, deepseek_enabled, multi_messages, served, last, sel,
                   raw_text, requests, runs>>

NextIngest ==
    \/ \E d \in DocIds, fault \in PageFaults : StartProcessing(d, fault)
    \/ \E d \in DocIds, download_ok \in BOOLEAN, ocr_ok \in BOOLEAN, embed_ok \in BOOLEAN :
          ExtractText(d, download_ok, ocr_ok, embed_ok)
    \/ \E d \in DocIds : EmbedBatch(d)
    \/ \E d \in DocIds, db_ok \in BOOLEAN : CommitBatch(d, db_ok)
    \/ \E d \in DocIds, db_ok \in BOOLEAN : FinishProcessing(d, db_ok)
    \/ \E u \in Actors, d \in DocIds : DeleteDocument(u, d)
    \/ \E u \in Actors, d \in DocIds : RejectDocument(u, d)
    \/ \E u \in Actors, d \in DocIds :
          ChatMessage(u, 0, d, "q1", "gemini", Healthy.prov, Healthy.gen, FALSE)

SpecIngest == InitIngest /\ [][NextIngest]_vars

(***************************************************************************)
(* Claims on ingestion and deletion (checked under SpecIngest)             *)
(***************************************************************************)
\* the place of the row's text in page_texts, the order of extraction
ExtractionPlace(row) == row.content[1].p

\* C25: the stored chunks of a document have pairwise distinct page_number
\* values, and their page_number order is the order in which their texts
\* were extracted; also when pages were skipped or a batch was rolled back.
C25_PageNumbersDistinctInExtractionOrder ==
    \A d \in DocIds :
       \A i \in 1..Len(embeddings[d]), j \in 1..Len(embeddings[d]) :
          /\ i # j => embeddings[d][i].page_number # embeddings[d][j].page_number
          /\ embeddings[d][i].page_number < embeddings[d][j].page_number
                <=> ExtractionPlace(embeddings[d][i]) < ExtractionPlace(embeddings[d][j])

\* C25 witness: a completed run in which the first page was skipped and the
\* second batch was rolled back, with chunks of the first and the third batch
C25_Witness ==
    /\ runs["d1"].pc = "done" /\ runs["d1"].end = "completed"
    /\ runs["d1"].fault = "skip_first"
    /\ runs["d1"].commits = <<"ok", "rollback", "ok">>
    /\ Len(embeddings["d1"]) >= 3
    /\ embeddings["d1"][1].page_number = 1
    /\ embeddings["d1"][3].page_number = 2 * BATCH_SIZE

\* rows b are rows a followed by at most n more rows
ExtendsByAtMost(a, b, n) ==
    /\ Len(a) <= Len(b) /\ Len(b) <= Len(a) + n
    /\ \A i \in 1..Len(a) : b[i] = a[i]

\* C26: every step of the ingestion task leaves the chunks stored so far as
\* they are and adds at most 3 rows after them: the rows are committed batch
\* by batch, at most 3 per commit, and the rows of earlier batches stay
\* stored when a later batch fails.
C26_BatchesOfThreeAppendOnly ==
    [][\A d \in DocIds :
          runs'[d] # runs[d] => ExtendsByAtMost(embeddings[d], embeddings'[d], 3)]_vars

\* C26 witness: two committed batches of three rows each are stored after the
\* third batch was rolled back
C26_Witness ==
    /\ runs["d1"].pc = "batch"
    /\ runs["d1"].commits = <<"ok", "ok", "rollback">>
    /\ runs["d1"].fault = "none"
    /\ Len(embeddings["d1"]) = 2 * BATCH_SIZE
    /\ documents["d1"].exists

\* C27: once the document is deleted (delete_document or reject_document
\* committed), no chunk, chat session or chat message of it is stored, in
\* this state and in every later one, whatever an ingestion run still in
\* progress does.
C27_NothingLeftOfDeletedDocument ==
    \A d \in DocIds :
       ~documents[d].exists =>
          /\ embeddings[d] = <<>>
          /\ \A i \in 1..Len(chat_sessions) : chat_sessions[i].document_id # d
          /\ \A i \in 1..Len(chat_messages) :
                /\ chat_messages[i].session_id \in 1..Len(chat_sessions)
                /\ chat_sessions[chat_messages[i].session_id].document_id # d

\* C27 witness: the document was deleted while a batch of its run awaited the
\* commit; chunks had been stored and a chat held before; the commit was
\* refused and the run ended
C27_Witness ==
    /\ ~documents["d1"].exists
    /\ runs["d1"].pc = "done" /\ runs["d1"].end = "gone"
    /\ runs["d1"].commits = <<"ok", "fk_violation">>
    /\ served = 1
    /\ embeddings["d1"] = <<>> /\ chat_sessions = <<>> /\ chat_messages = <<>>

\* C29 (as stated): whenever the status of a document is "completed" at least
\* one chunk of it is stored; a run that stored no chunk (no text extracted,
\* every embedding failed, every commit rolled back) ends with status "failed".
C29_CompletedHasChunks ==
    \A d \in DocIds :
       documents[d].exists =>
          /\ documents[d].status = "completed" => Len(embeddings[d]) >= 1
          /\ (runs[d].pc = "done" /\ embeddings[d] = <<>>) =>
                documents[d].status = "failed"

(***************************************************************************)
(* SpecAccess: the life of the documents and of the roles - creation,      *)
(* ingestion, approval, rejection, deletion, role changes by either user - *)
(* with chat requests that open sessions                                   *)
(***************************************************************************)
NextAccess ==
    \/ \E u \in Users : MakeFirstAdmin(u)
    \/ \E u \in Users, target \in Users, role \in AssignableRoles :
          UpdateUserRole(u, target, role)
    \/ \E d \in DocIds, visibility \in Visibilities : CreateDocument(d, visibility)
    \/ \E d \in DocIds : ProcessDocument(d)
    \/ \E u \in Users, d \in DocIds : ApproveDocument(u, d)
    \/ \E u \in Users, d \in DocIds : RejectDocument(u, d)
    \/ \E u \in Users, d \in DocIds : DeleteDocument(u, d)
    \/ \E u \in Users, d \in DocIds :
          ChatMessage(u, 0, d, "q1", "gemini", Healthy.prov, Healthy.gen, FALSE)

SpecAccess == Init /\ [][NextAccess]_vars

====
